---- MODULE Spec2Model ----
(***************************************************************************)
(* graphio_extractor: the shared string interner (data/src/lib.rs), the    *)
(* payload extraction of extract_data and the positional assembly of       *)
(* transform_data (src/main.rs, src/parsing.rs).                           *)
(*                                                                         *)
(* Texts are the byte sequences of their UTF-8 encoding.  Every subsystem   *)
(* has its own specification; all of them share the interner table.        *)
(***************************************************************************)
EXTENDS Integers, Sequences, FiniteSets, TLC

VARIABLES
    interner,   \* INTERNER: [map : text -> StrSym, values : Seq(text)]
    rwlock,     \* the RwLock around it: [writer : thread or 0, readers : set of threads]
    thr,        \* per thread: position inside Str::new / Str::str, argument, result
    issued,     \* what Str::new has returned so far: text, Str, calling thread
    calls,      \* number of Str::new / Str::str calls started
    output,     \* extract_data: the stdout of the game
    ex,         \* extract_data: position in the function and its locals
    given,      \* transform_data: the records the token vector was written from
    lines,      \* transform_data: the token vector handed in
    td,         \* transform_data: position in the function and its locals
    rd          \* a single call of a function of parsing.rs or of the icon stage

vars == <<interner, rwlock, thr, issued, calls, output, ex, given, lines, td, rd>>

internVars  == <<interner, rwlock, thr, issued, calls>>
extractVars == <<output, ex>>
dataVars    == <<given, lines, td>>
readVars    == <<rd>>

(***************************************************************************)
(* Bounds of the model                                                     *)
(***************************************************************************)
NThreads == 2       \* threads using the interner
MaxCalls == 4       \* Str::new / Str::str calls per behaviour
MaxOutLen == 5      \* length of the game's output text, any characters
MaxFrameLen == 7    \* length of the game's output text, no carriage returns
MaxRecords == 3     \* records in an exported data set
MaxEffModules == 1  \* modules in a data set written to try the allowed effects
MaxPerKind == 1     \* records of each category in a data set that is cut short
MaxKeyLen == 2      \* bytes of the key of a localised line

Threads == 1..NThreads

(***************************************************************************)
(* Characters                                                              *)
(***************************************************************************)
SOH == 1            \* '\x01' start marker
STX == 2            \* '\x02' opens a line
ETX == 3            \* '\x03' closes a line
EOT == 4            \* '\x04' end marker
US  == 31           \* '\x1f' unit separator
LF  == 10
CR  == 13

Ch_a == 97
Ch_b == 98
Ch_n == 110

(***************************************************************************)
(* String interning: StrSym, string_interner::StringInterner, Str          *)
(***************************************************************************)
\* StrSym::from_usize: the symbol is the index plus one (NonZeroU32)
from_usize(val) == val + 1

\* StrSym::to_usize
to_usize(sym) == sym - 1

EmptyInterner == [map |-> [x \in {} |-> 0], values |-> <<>>]

\* a lookup that never finds the text
MapHas_never(tab, s) == FALSE

\* StringInterner::get: is the text in the map, and under which symbol
MapHas(tab, s) == s \in DOMAIN tab.map

MapGet(tab, s) == tab.map[s]

\* an intern that puts the new text in front of the older ones
InternNew_front(tab, s) ==
    LET sym == from_usize(Len(tab.values))
    IN  [sym |-> sym,
         tab |-> [map    |-> [x \in DOMAIN tab.map \cup {s} |->
                                 IF x = s THEN sym ELSE tab.map[x]],
                  values |-> <<s>> \o tab.values]]

\* StringInterner::intern: a new symbol made from the current length
InternNew(tab, s) ==
    LET sym == from_usize(Len(tab.values))
    IN  [sym |-> sym,
         tab |-> [map    |-> [x \in DOMAIN tab.map \cup {s} |->
                                 IF x = s THEN sym ELSE tab.map[x]],
                  values |-> Append(tab.values, s)]]

\* StringInterner::get_or_intern
get_or_intern(tab, s) ==
    IF MapHas(tab, s)
    THEN [sym |-> MapGet(tab, s), tab |-> tab]
    ELSE InternNew(tab, s)

\* StringInterner::resolve_unchecked
resolve_unchecked(tab, sym) == tab.values[to_usize(sym) + 1]

(***************************************************************************)
(* Str::new and Str::str called from several threads                       *)
(***************************************************************************)
\* the texts the threads intern
InternTexts == {<<Ch_a>>, <<Ch_b>>, <<Ch_a, Ch_b>>}

IdleThread == [pc |-> "idle", arg |-> <<>>, res |-> <<>>]

LockFree == [writer |-> 0, readers |-> {}]

\* a write lock that does not wait for the readers
CanWrite_despite_readers(l) == l.writer = 0

\* RwLock::write succeeds when nobody holds the lock
CanWrite(l) == l.writer = 0 /\ l.readers = {}

\* RwLock::read succeeds when no writer holds the lock
CanRead(l) == l.writer = 0

\* a thread calls Str::new(s)
NewCall(t, s) ==
    /\ thr[t].pc = "idle"
    /\ calls < MaxCalls
    /\ thr' = [thr EXCEPT ![t] = [pc |-> "new_wait", arg |-> s, res |-> <<>>]]
    /\ calls' = calls + 1
    /\ UNCHANGED <<interner, rwlock, issued, extractVars, dataVars, readVars>>

\* Str::new: INTERNER.write() returns the guard
NewLock(t) ==
    /\ thr[t].pc = "new_wait"
    /\ CanWrite(rwlock)
    /\ rwlock' = [rwlock EXCEPT !.writer = t]
    /\ thr' = [thr EXCEPT ![t].pc = "new_lookup"]
    /\ UNCHANGED <<interner, issued, calls, extractVars, dataVars, readVars>>

\* Str::new: get_or_intern finds the text in the map, or not
NewLookup(t) ==
    /\ thr[t].pc = "new_lookup"
    /\ IF MapHas(interner, thr[t].arg)
       THEN thr' = [thr EXCEPT ![t].pc = "new_unlock",
                               ![t].res = MapGet(interner, thr[t].arg)]
       ELSE thr' = [thr EXCEPT ![t].pc = "new_insert"]
    /\ UNCHANGED <<interner, rwlock, issued, calls, extractVars, dataVars, readVars>>

\* Str::new: get_or_intern adds the unknown text
NewInsert(t) ==
    /\ thr[t].pc = "new_insert"
    /\ LET r == InternNew(interner, thr[t].arg)
       IN  /\ interner' = r.tab
           /\ thr' = [thr EXCEPT ![t].pc = "new_unlock", ![t].res = r.sym]
    /\ UNCHANGED <<rwlock, issued, calls, extractVars, dataVars, readVars>>

\* Str::new: the guard is dropped and Str(sym) returned
NewUnlock(t) ==
    /\ thr[t].pc = "new_unlock"
    /\ rwlock' = [rwlock EXCEPT !.writer = 0]
    /\ issued' = Append(issued, [text |-> thr[t].arg, str |-> thr[t].res, by |-> t])
    /\ thr' = [thr EXCEPT ![t].pc = "idle"]
    /\ UNCHANGED <<interner, calls, extractVars, dataVars, readVars>>

\* a thread calls Str::str on a Str it got from Str::new
StrCall(t, y) ==
    /\ thr[t].pc = "idle"
    /\ calls < MaxCalls
    /\ thr' = [thr EXCEPT ![t] = [pc |-> "str_wait", arg |-> y, res |-> <<>>]]
    /\ calls' = calls + 1
    /\ UNCHANGED <<interner, rwlock, issued, extractVars, dataVars, readVars>>

\* Str::str: INTERNER.read() returns the guard
StrLock(t) ==
    /\ thr[t].pc = "str_wait"
    /\ CanRead(rwlock)
    /\ rwlock' = [rwlock EXCEPT !.readers = @ \cup {t}]
    /\ thr' = [thr EXCEPT ![t].pc = "str_resolve"]
    /\ UNCHANGED <<interner, issued, calls, extractVars, dataVars, readVars>>

\* Str::str: resolve_unchecked
StrResolve(t) ==
    /\ thr[t].pc = "str_resolve"
    /\ thr' = [thr EXCEPT ![t].pc = "str_unlock",
                           ![t].res = resolve_unchecked(interner, thr[t].arg)]
    /\ UNCHANGED <<interner, rwlock, issued, calls, extractVars, dataVars, readVars>>

\* Str::str: the guard is dropped and the text returned
StrUnlock(t) ==
    /\ thr[t].pc = "str_unlock"
    /\ rwlock' = [rwlock EXCEPT !.readers = @ \ {t}]
    /\ thr' = [thr EXCEPT ![t].pc = "idle"]
    /\ UNCHANGED <<interner, issued, calls, extractVars, dataVars, readVars>>

NextIntern ==
    \/ \E t \in Threads, s \in InternTexts : NewCall(t, s)
    \/ \E t \in Threads : NewLock(t)
    \/ \E t \in Threads : NewLookup(t)
    \/ \E t \in Threads : NewInsert(t)
    \/ \E t \in Threads : NewUnlock(t)
    \/ \E t \in Threads, i \in 1..Len(issued) : StrCall(t, issued[i].str)
    \/ \E t \in Threads : StrLock(t)
    \/ \E t \in Threads : StrResolve(t)
    \/ \E t \in Threads : StrUnlock(t)

(***************************************************************************)
(* extract_data: from the game's output to the token vector                *)
(***************************************************************************)
None == [some |-> FALSE]
Some(x) == [some |-> TRUE, v |-> x]

\* the characters the output is made of
OutChars == {SOH, STX, ETX, EOT, CR, LF}
FrameChars == {SOH, STX, ETX, EOT, LF}

RECURSIVE SeqsUpTo(_, _)
SeqsUpTo(S, n) ==
    IF n = 0 THEN {<<>>}
    ELSE LET shorter == SeqsUpTo(S, n - 1)
         IN  shorter \cup {Append(q, c) : q \in {x \in shorter : Len(x) = n - 1}, c \in S}

\* str::replace("\r\n", "\n")
RECURSIVE replace_crlf(_)
replace_crlf(s) ==
    IF Len(s) < 2 THEN s
    ELSE IF s[1] = CR /\ s[2] = LF
         THEN <<LF>> \o replace_crlf(SubSeq(s, 3, Len(s)))
         ELSE <<s[1]>> \o replace_crlf(Tail(s))

\* str::rfind: the 0-based index of the last c at or before position i (1-based)
RECURSIVE rfind(_, _, _)
rfind(s, c, i) ==
    IF i < 1 THEN None
    ELSE IF s[i] = c THEN Some(i - 1)
    ELSE rfind(s, c, i - 1)

\* a find that returns the last occurrence
find_last(s, c, i) == rfind(s, c, Len(s))

\* str::find: the 0-based index of the first c at or after position i (1-based)
RECURSIVE find(_, _, _)
find(s, c, i) ==
    IF i > Len(s) THEN None
    ELSE IF s[i] = c THEN Some(i - 1)
    ELSE find(s, c, i + 1)

\* &s[from..to] with 0-based bounds: it panics when from > to or to > len
slice(s, from, to) ==
    IF from <= to /\ to <= Len(s)
    THEN [ok |-> TRUE, v |-> SubSeq(s, from + 1, to)]
    ELSE [ok |-> FALSE]

\* an inner loop that yields the fragment left open at the end
RECURSIVE batch_inner_flush(_, _, _)
batch_inner_flush(s, i, res) ==
    IF i > Len(s) THEN [some |-> TRUE, v |-> res, it |-> i]
    ELSE IF s[i] = ETX THEN [some |-> TRUE, v |-> res, it |-> i + 1]
    ELSE batch_inner_flush(s, i + 1, Append(res, s[i]))

\* the inner loop of the batching closure: push up to the closing ETX
RECURSIVE batch_inner(_, _, _)
batch_inner(s, i, res) ==
    IF i > Len(s) THEN [some |-> FALSE, it |-> i]
    ELSE IF s[i] = ETX THEN [some |-> TRUE, v |-> res, it |-> i + 1]
    ELSE batch_inner(s, i + 1, Append(res, s[i]))

\* one call of the batching closure on the iterator at position i
RECURSIVE batch_next(_, _)
batch_next(s, i) ==
    IF i > Len(s) THEN [some |-> FALSE, it |-> i]
    ELSE IF s[i] # STX THEN batch_next(s, i + 1)
    ELSE batch_inner(s, i + 1, <<>>)

ExStart == [pc |-> "start", span |-> <<>>, it |-> 1, lines |-> <<>>, err |-> ""]

\* extract_data: the output is cleaned and cut down to the marked span
ExStrip ==
    /\ ex.pc = "start"
    /\ LET out          == replace_crlf(output)
           marker_start == find(out, SOH, 1)
           marker_end   == rfind(out, EOT, Len(out))
       IN  /\ output' = out
           /\ IF ~marker_start.some
              THEN ex' = [ex EXCEPT !.pc = "err", !.err = "no start marker in output"]
              ELSE IF ~marker_end.some
              THEN ex' = [ex EXCEPT !.pc = "err", !.err = "no end marker in output"]
              ELSE LET cut == slice(out, marker_start.v + 1, marker_end.v)
                   IN  IF cut.ok
                       THEN ex' = [ex EXCEPT !.pc = "batching", !.span = cut.v]
                       ELSE ex' = [ex EXCEPT !.pc = "panic"]
    /\ UNCHANGED <<output, internVars, dataVars, readVars>>

\* extract_data: the batching closure yields the next line
ExBatchSome ==
    /\ ex.pc = "batching"
    /\ LET r == batch_next(ex.span, ex.it)
       IN  /\ r.some
           /\ ex' = [ex EXCEPT !.it = r.it, !.lines = Append(@, r.v)]
    /\ UNCHANGED <<output, internVars, dataVars, readVars>>

\* extract_data: the batching closure yields None, the lines are returned
ExBatchNone ==
    /\ ex.pc = "batching"
    /\ LET r == batch_next(ex.span, ex.it)
       IN  /\ ~r.some
           /\ ex' = [ex EXCEPT !.it = r.it, !.pc = "done"]
    /\ UNCHANGED <<output, internVars, dataVars, readVars>>

NextExtract == ExStrip \/ ExBatchSome \/ ExBatchNone

(***************************************************************************)
(* parsing.rs: the readers of the token iterator                           *)
(*                                                                         *)
(* A reader takes the iterator state st = [p, tab] (p the next token of    *)
(* lines, tab the interner) and returns Ok(value, st') or Err(text, st').  *)
(***************************************************************************)
Ch_plus  == 43
Ch_minus == 45
Ch_dot   == 46
Ch_0     == 48
Ch_1     == 49
Ch_5     == 53
Ch_9     == 57
Ch_E     == 69
Ch_e     == 101
Ch_quote == 34

Ok(x, st)  == [ok |-> TRUE, v |-> x, st |-> st]
Err(e, st) == [ok |-> FALSE, err |-> e, st |-> st]

\* a panic unwinds through every caller
Panic(st) == [ok |-> FALSE, err |-> "panic", st |-> st]

\* the ? operator: an Err is returned at once, an Ok goes on
Try(r, Then(_)) == IF r.ok THEN Then(r) ELSE r

IsDigit(c) == c >= Ch_0 /\ c <= Ch_9

\* char::to_digit(10)
to_digit(c) == c - Ch_0

RECURSIVE DigitsValue(_, _)
DigitsValue(s, acc) ==
    IF s = <<>> THEN acc ELSE DigitsValue(Tail(s), acc * 10 + to_digit(Head(s)))

AllDigits(s) == \A i \in 1..Len(s) : IsDigit(s[i])

\* str::parse::<usize>: an optional '+' and at least one digit
parse_usize(s) ==
    LET body == IF s # <<>> /\ s[1] = Ch_plus THEN Tail(s) ELSE s
    IN  IF body # <<>> /\ AllDigits(body)
        THEN [ok |-> TRUE, v |-> DigitsValue(body, 0)]
        ELSE [ok |-> FALSE]

\* str::parse::<BigInt>: an optional '-', an optional '+' and at least one digit
parse_int(s) ==
    LET neg  == s # <<>> /\ s[1] = Ch_minus
        t    == IF neg THEN Tail(s) ELSE s
        body == IF t # <<>> /\ t[1] = Ch_plus THEN Tail(t) ELSE t
    IN  IF body # <<>> /\ AllDigits(body)
        THEN [ok |-> TRUE, v |-> IF neg THEN 0 - DigitsValue(body, 0) ELSE DigitsValue(body, 0)]
        ELSE [ok |-> FALSE]

\* str::split(c): the parts between the separators, at least one
RECURSIVE split(_, _, _)
split(s, c, cur) ==
    IF s = <<>> THEN <<cur>>
    ELSE IF Head(s) = c THEN <<cur>> \o split(Tail(s), c, <<>>)
    ELSE split(Tail(s), c, Append(cur, Head(s)))

\* a read_line that gives an empty line when the iterator is exhausted
read_line_or_default(st) ==
    IF st.p <= Len(lines)
    THEN Ok(lines[st.p], [st EXCEPT !.p = @ + 1])
    ELSE Ok(<<>>, st)

\* read_line
read_line(st) ==
    IF st.p <= Len(lines)
    THEN Ok(lines[st.p], [st EXCEPT !.p = @ + 1])
    ELSE Err("unexpected end of data", st)

\* Str::new on the interner the iterator state carries
StrNew(st, s) ==
    LET g == get_or_intern(st.tab, s)
    IN  Ok(g.sym, [st EXCEPT !.tab = g.tab])

\* read_str
read_str(st) == Try(read_line(st), LAMBDA r : StrNew(r.st, r.v))

\* "Unknown key: \""
UnknownKeyPrefix == <<85, 110, 107, 110, 111, 119, 110, 32, 107, 101, 121, 58, 32, 34>>

\* a byte 10xxxxxx goes on with the character before it
IsContinuation(b) == b >= 128 /\ b < 192

\* str::is_char_boundary, the index 0-based
is_char_boundary(s, i) ==
    i = 0 \/ i = Len(s) \/ (i > 0 /\ i < Len(s) /\ ~IsContinuation(s[i + 1]))

\* value.len() == 15 + key.len() && &value[0..14] == "Unknown key: \""
\*     && &value[value.len() - 1..] == "\"";
\* a slice that does not start and end on a character boundary panics
is_unknown_key(key, value) ==
    IF Len(value) # 15 + Len(key) THEN [panic |-> FALSE, v |-> FALSE]
    ELSE IF ~is_char_boundary(value, 14) THEN [panic |-> TRUE, v |-> FALSE]
    ELSE IF SubSeq(value, 1, 14) # UnknownKeyPrefix THEN [panic |-> FALSE, v |-> FALSE]
    ELSE IF ~is_char_boundary(value, Len(value) - 1) THEN [panic |-> TRUE, v |-> FALSE]
    ELSE [panic |-> FALSE, v |-> value[Len(value)] = Ch_quote]

\* the text a line of key and value stands for
localised_text(st, key, value, required, unknown) ==
    IF unknown.panic THEN Panic(st)
    ELSE IF unknown.v
    THEN IF required
         THEN Try(StrNew(st, key), LAMBDA k : Ok(Some(k.v), k.st))
         ELSE Ok(None, st)
    ELSE Try(StrNew(st, value), LAMBDA k : Ok(Some(k.v), k.st))

\* the two parts of a localised line to the text it stands for
localised_parts(st, parts, required) ==
    IF Len(parts) < 2 THEN Err("no value part in localised string", st)
    ELSE IF Len(parts) > 2 THEN Err("extra part in localised string", st)
    ELSE localised_text(st, parts[1], parts[2], required,
                        is_unknown_key(parts[1], parts[2]))

\* read_localised_str_internal
read_localised_str_internal(st, required) ==
    Try(read_line(st), LAMBDA r : localised_parts(r.st, split(r.v, US, <<>>), required))

\* read_localised_str
read_localised_str(st) ==
    Try(read_localised_str_internal(st, TRUE), LAMBDA r : Ok(r.v.v, r.st))

\* read_optional_localised_str
read_optional_localised_str(st) == read_localised_str_internal(st, FALSE)

\* read_metadata
read_metadata(st) ==
    Try(read_localised_str(st), LAMBDA localised_name :
    Try(read_optional_localised_str(localised_name.st), LAMBDA localised_description :
    Ok([localised_name |-> localised_name.v,
        localised_description |-> localised_description.v,
        icon |-> None], localised_description.st)))

\* a parsed line, or the error text of map_err
Parsed(v, e, st) == IF v.ok THEN Ok(v.v, st) ELSE Err(e, st)

\* read_usize
read_usize(st) ==
    Try(read_line(st), LAMBDA r : Parsed(parse_usize(r.v), "cannot read usize", r.st))

\* read_int
read_int(st) ==
    Try(read_line(st), LAMBDA r : Parsed(parse_int(r.v), "cannot read int", r.st))

(***************************************************************************)
(* read_ratio.  A Ratio is [n, d] in lowest terms with d > 0.  The f64 of  *)
(* the fractional part is kept as the exact decimal value it is parsed     *)
(* from.                                                                   *)
(***************************************************************************)
DenEnd == 1001              \* for den in 1..1001
EpsDen == 100000000         \* delta <= 0.00000001

Abs(x) == IF x < 0 THEN 0 - x ELSE x

RECURSIVE Gcd(_, _)
Gcd(a, b) == IF b = 0 THEN a ELSE Gcd(b, a % b)

RECURSIVE Pow10(_)
Pow10(k) == IF k = 0 THEN 1 ELSE 10 * Pow10(k - 1)

\* Ratio::new: reduced, the sign in the numerator
RatioNew(n, d) ==
    LET g == Gcd(Abs(n), d)
    IN  [n |-> n \div g, d |-> d \div g]

RatioZero == [n |-> 0, d |-> 1]

\* Ratio + Ratio
RatioAdd(a, b) == RatioNew(a.n * b.d + b.n * a.d, a.d * b.d)

\* -Ratio
RatioNeg(a) == [n |-> 0 - a.n, d |-> a.d]

\* Zero::is_zero
is_zero(a) == a.n = 0

\* the value mant * 10^(-Len(mant)) * 10^(+-e) of a decimal fraction
f64_value(mant, eNeg, e) ==
    IF eNeg THEN [n |-> DigitsValue(mant, 0), d |-> Pow10(Len(mant) + e)]
    ELSE IF e >= Len(mant) THEN [n |-> DigitsValue(mant, 0) * Pow10(e - Len(mant)), d |-> 1]
    ELSE [n |-> DigitsValue(mant, 0), d |-> Pow10(Len(mant) - e)]

\* the digits after the period and the text after the exponent letter, if any
f64_parts(mant, hasE, eNeg, exD) ==
    IF mant = <<>> \/ ~AllDigits(mant) THEN [ok |-> FALSE]
    ELSE IF hasE /\ (exD = <<>> \/ ~AllDigits(exD)) THEN [ok |-> FALSE]
    ELSE [ok |-> TRUE, v |-> f64_value(mant, eNeg, IF hasE THEN DigitsValue(exD, 0) ELSE 0)]

\* the exponent without its sign
exp_digits(ex0) ==
    IF ex0 # <<>> /\ ex0[1] \in {Ch_minus, Ch_plus} THEN Tail(ex0) ELSE ex0

\* the text after the period, cut at the exponent letter
f64_cut(t, ePos) ==
    f64_parts(SubSeq(t, 1, ePos.v - 1), ePos.some,
              ePos.v < Len(t) /\ t[ePos.v + 1] = Ch_minus,
              exp_digits(SubSeq(t, ePos.v + 1, Len(t))))

\* the first exponent letter of a text
RECURSIVE find_exp(_, _)
find_exp(t, i) ==
    IF i > Len(t) THEN [some |-> FALSE, v |-> Len(t) + 1]
    ELSE IF t[i] \in {Ch_E, Ch_e} THEN [some |-> TRUE, v |-> i]
    ELSE find_exp(t, i + 1)

\* str::parse::<f64> of a text that starts with the period: digits, then an
\* optional exponent E[+-]digits, at least one digit before it
parse_f64(s) == f64_cut(Tail(s), find_exp(Tail(s), 1))

\* |approx - num / den| is x / (approx.d * d): the deltas of one approx are
\* kept over the denominator approx.d they share
Delta(approx, num, den) ==
    [x |-> Abs(approx.n * den - num * approx.d), d |-> den]

\* a / b < c / d for a, c >= 0 and b, d > 0, by quotients and remainders
\* so that no product leaves the 32 bits of the checker's integers
RECURSIVE FracLt(_, _, _, _)
FracLt(a, b, c, d) ==
    IF a \div b # c \div d THEN a \div b < c \div d
    ELSE IF c % d = 0 THEN FALSE
    ELSE IF a % b = 0 THEN TRUE
    ELSE FracLt(d, c % d, b, a % b)

\* delta <= closest_delta, which lets a later candidate as close replace the kept one
DeltaLe(a, b) == ~FracLt(b.x, b.d, a.x, a.d)

\* delta < closest_delta
DeltaLt(a, b) == FracLt(a.x, a.d, b.x, b.d)

\* delta <= 0.00000001, that is x * EpsDen <= approx.d * d
LeEps(approx, delta) == delta.x <= (approx.d * delta.d) \div EpsDen

\* if delta < closest_delta { ...; if delta <= 0.00000001 { break 'outer; } }
\* best is [delta, num, den, done], done after the break
ratio_step(approx, den, num, best, delta) ==
    IF DeltaLt(delta, best.delta)
    THEN [delta |-> delta, num |-> num, den |-> den, done |-> LeEps(approx, delta)]
    ELSE best

\* for num in lo..hi { ... }, the range run in two halves one after the other
RECURSIVE ratio_inner(_, _, _, _, _)
ratio_inner_rest(approx, den, lo, hi, b) ==
    IF b.done THEN b ELSE ratio_inner(approx, den, lo, hi, b)

ratio_inner(approx, den, lo, hi, best) ==
    IF lo > hi THEN best
    ELSE IF lo = hi THEN ratio_step(approx, den, lo, best, Delta(approx, lo, den))
    ELSE ratio_inner_rest(approx, den, (lo + hi) \div 2 + 1, hi,
                          ratio_inner(approx, den, lo, (lo + hi) \div 2, best))

\* 'outer: for den in lo..hi { for num in 1..den { ... } }, the range run in
\* two halves one after the other
RECURSIVE ratio_outer(_, _, _, _)
ratio_outer_rest(approx, lo, hi, b) ==
    IF b.done THEN b ELSE ratio_outer(approx, lo, hi, b)

ratio_outer(approx, lo, hi, best) ==
    IF lo > hi THEN best
    ELSE IF lo = hi THEN ratio_inner(approx, lo, 1, lo - 1, best)
    ELSE ratio_outer_rest(approx, (lo + hi) \div 2 + 1, hi,
                          ratio_outer(approx, lo, (lo + hi) \div 2, best))

\* Ratio::new(num, den) of the closest pair
best_ratio(b) == RatioNew(b.num, b.den)

\* the fraction chosen for the f64 approx
closest_fraction(approx) ==
    IF approx.n <= 0 THEN RatioZero
    ELSE best_ratio(ratio_outer(approx, 1, DenEnd - 1,
                        [delta |-> [x |-> approx.n, d |-> 1], num |-> 0, den |-> 1,
                         done |-> FALSE]))

\* if negative { -sum } else { sum }
ratio_sign(negative, sum) == IF negative THEN RatioNeg(sum) ELSE sum

\* base + the fraction closest to the f64 of the fractional part
ratio_sum(negative, whole, approx) ==
    IF ~AllDigits(whole)
    THEN [ok |-> FALSE, err |-> "unexpected non-digit in string to ratio"]
    ELSE IF ~approx.ok
    THEN [ok |-> FALSE, err |-> "cannot parse fractional part as f64 for ratio"]
    ELSE [ok |-> TRUE,
          v  |-> ratio_sign(negative, RatioAdd([n |-> DigitsValue(whole, 0), d |-> 1],
                                               closest_fraction(approx.v)))]

\* the f64 of s[period..], the zero if there is no period
ratio_approx(s, period) ==
    IF ~period.some THEN [ok |-> TRUE, v |-> RatioZero]
    ELSE parse_f64(SubSeq(s, period.v + 1, Len(s)))

\* the text without its sign, and where its period is
ratio_parts(negative, s, period) ==
    IF period.some /\ find(SubSeq(s, period.v + 2, Len(s)), Ch_e, 1).some
    THEN [ok |-> FALSE, err |-> "scientific notation not supported"]
    ELSE ratio_sum(negative,
                   IF period.some THEN SubSeq(s, 1, period.v) ELSE s,
                   ratio_approx(s, period))

\* &s[1..] when s.starts_with('-'), and s.find('.')
ratio_unsigned(negative, s) == ratio_parts(negative, s, find(s, Ch_dot, 1))

\* the text of a ratio token to its value
parse_ratio(s0) ==
    IF Len(s0) < 1 THEN [ok |-> FALSE, err |-> "expected ratio, got empty string"]
    ELSE ratio_unsigned(s0[1] = Ch_minus, IF s0[1] = Ch_minus THEN Tail(s0) ELSE s0)

\* Ok(v) or the error's text, on the iterator after the line
ratio_result(v, st) == IF v.ok THEN Ok(v.v, st) ELSE Err(v.err, st)

\* read_ratio
read_ratio(st) == Try(read_line(st), LAMBDA r : ratio_result(parse_ratio(r.v), r.st))

\* parse_bit
parse_bit(c) ==
    IF c = Ch_0 THEN [ok |-> TRUE, v |-> FALSE]
    ELSE IF c = Ch_1 THEN [ok |-> TRUE, v |-> TRUE]
    ELSE [ok |-> FALSE]

\* read_allowed_effects
read_allowed_effects(st) ==
    Try(read_line(st), LAMBDA r :
        IF Len(r.v) # 4 THEN Err("expected allowed_effects to be 4 bits", r.st)
        ELSE IF \E i \in 1..4 : ~parse_bit(r.v[i]).ok
             THEN Err("expected 0 or 1 as bit value", r.st)
        ELSE Ok([energy       |-> parse_bit(r.v[1]).v,
                 speed        |-> parse_bit(r.v[2]).v,
                 productivity |-> parse_bit(r.v[3]).v,
                 pollution    |-> parse_bit(r.v[4]).v], r.st))

(***************************************************************************)
(* transform_data: the records                                             *)
(*                                                                         *)
(* A HashSet or HashMap of entities is a function from the ID to the       *)
(* entity, as the entities hash and compare by their ID alone.             *)
(***************************************************************************)
KwItem        == <<105, 116, 101, 109>>
KwFluid       == <<102, 108, 117, 105, 100>>
KwFixed       == <<102, 105, 120, 101, 100>>
KwProbability == <<112, 114, 111, 98, 97, 98, 105, 108, 105, 116, 121>>

EmptyMap == [x \in {} |-> 0]

\* HashMap::insert: the value of an equal key is replaced
MapPut(m, k, v) == [x \in DOMAIN m \cup {k} |-> IF x = k THEN v ELSE m[x]]

\* HashSet::insert: an equal element already in the set stays
SetInsert(m, k, v) == IF k \in DOMAIN m THEN m ELSE MapPut(m, k, v)

\* HashSet::take
SetTake(m, k) == [x \in DOMAIN m \ {k} |-> m[x]]

\* one machine: the closure of (0..machine_count).map
machine_read(st) ==
    Try(read_str(st), LAMBDA id :
    Try(read_metadata(id.st), LAMBDA metadata :
    Try(read_ratio(metadata.st), LAMBDA crafting_speed :
    Try(read_ratio(crafting_speed.st), LAMBDA energy_consumption :
    Try(read_ratio(energy_consumption.st), LAMBDA energy_drain :
    Try(read_int(energy_drain.st), LAMBDA module_slots :
    Try(read_allowed_effects(module_slots.st), LAMBDA allowed_effects :
    Ok([id |-> id.v,
        obj |-> [id |-> id.v,
                 metadata |-> metadata.v,
                 crafting_speed |-> crafting_speed.v,
                 energy_consumption |-> energy_consumption.v,
                 energy_drain |-> energy_drain.v,
                 module_slots |-> module_slots.v,
                 supported_modules |-> {}],
        allowed_effects |-> allowed_effects.v], allowed_effects.st))))))))

\* one beacon
beacon_read(st) ==
    Try(read_str(st), LAMBDA id :
    Try(read_metadata(id.st), LAMBDA metadata :
    Try(read_ratio(metadata.st), LAMBDA distribution_effectivity :
    Try(read_allowed_effects(distribution_effectivity.st), LAMBDA allowed_effects :
    Ok([id |-> id.v,
        obj |-> [id |-> id.v,
                 metadata |-> metadata.v,
                 distribution_effectivity |-> distribution_effectivity.v,
                 supported_modules |-> {}],
        allowed_effects |-> allowed_effects.v], allowed_effects.st)))))

\* an optional temperature of a fluid ingredient, by its flag
optional_ratio(st, flag) ==
    IF flag = Ch_0 THEN Ok(None, st)
    ELSE IF flag = Ch_1
         THEN Try(read_ratio(st), LAMBDA r : Ok(Some(r.v), r.st))
    ELSE Err("expected optional field flags in ingredient fluid to be 0 or 1", st)

\* the resource of a fluid ingredient: two flags and the temperatures they announce
ingredient_fluid_read(st, id) ==
    Try(read_line(st), LAMBDA flags :
        IF Len(flags.v) # 2
        THEN Err("expected optional field flags in ingredient fluid to be 2 bits", flags.st)
        ELSE
        Try(optional_ratio(flags.st, flags.v[1]), LAMBDA minimum_temperature :
        Try(optional_ratio(minimum_temperature.st, flags.v[2]), LAMBDA maximum_temperature :
        Ok([kind |-> "fluid", id |-> id,
            minimum_temperature |-> minimum_temperature.v,
            maximum_temperature |-> maximum_temperature.v], maximum_temperature.st))))

\* one ingredient of a recipe
ingredient_read(st) ==
    Try(read_line(st), LAMBDA kind :
    Try(read_str(kind.st), LAMBDA id :
    Try(read_ratio(id.st), LAMBDA amount :
    Try(read_ratio(amount.st), LAMBDA catalyst_amount :
    Try(IF kind.v = KwItem
        THEN Ok([kind |-> "item", id |-> id.v], catalyst_amount.st)
        ELSE IF kind.v = KwFluid
        THEN ingredient_fluid_read(catalyst_amount.st, id.v)
        ELSE Err("unknown recipe ingredient kind", catalyst_amount.st), LAMBDA resource :
    Ok([resource |-> resource.v,
        amount |-> amount.v,
        catalyst_amount |-> catalyst_amount.v], resource.st))))))

\* (0..ingredient_count).map(...).collect::<Result<Vec<_>>>()
RECURSIVE ingredients_read(_, _, _)
ingredients_read(st, k, acc) ==
    IF k = 0 THEN Ok(acc, st)
    ELSE Try(ingredient_read(st), LAMBDA r : ingredients_read(r.st, k - 1, Append(acc, r.v)))

\* the amount of a product
product_amount_read(st) ==
    Try(read_line(st), LAMBDA kind :
        IF kind.v = KwFixed
        THEN Try(read_ratio(kind.st), LAMBDA amount :
             Try(read_ratio(amount.st), LAMBDA catalyst_amount :
             Ok([kind |-> "fixed", amount |-> amount.v,
                 catalyst_amount |-> catalyst_amount.v], catalyst_amount.st)))
        ELSE IF kind.v = KwProbability
        THEN Try(read_ratio(kind.st), LAMBDA amount_min :
             Try(read_ratio(amount_min.st), LAMBDA amount_max :
             Try(read_ratio(amount_max.st), LAMBDA probability :
             Ok([kind |-> "probability", amount_min |-> amount_min.v,
                 amount_max |-> amount_max.v,
                 probability |-> probability.v], probability.st))))
        ELSE Err("unknown recipe product amount kind", kind.st))

\* one product of a recipe
product_read(st) ==
    Try(read_line(st), LAMBDA kind :
    Try(read_str(kind.st), LAMBDA id :
    Try(IF kind.v = KwItem THEN Ok([kind |-> "item", id |-> id.v], id.st)
        ELSE IF kind.v = KwFluid
        THEN Try(read_ratio(id.st), LAMBDA temperature :
                 Ok([kind |-> "fluid", id |-> id.v,
                     temperature |-> temperature.v], temperature.st))
        ELSE Err("unknown recipe product kind", id.st), LAMBDA resource :
    Try(product_amount_read(resource.st), LAMBDA amount :
    Ok([resource |-> resource.v, amount |-> amount.v], amount.st)))))

\* (0..product_count).map(...).collect::<Result<Vec<_>>>()
RECURSIVE products_read(_, _, _)
products_read(st, k, acc) ==
    IF k = 0 THEN Ok(acc, st)
    ELSE Try(product_read(st), LAMBDA r : products_read(r.st, k - 1, Append(acc, r.v)))

\* (0..count).map(|_| Ok(ID(read_str(iter)?))).collect::<Result<HashSet<_>>>()
RECURSIVE ids_read(_, _, _)
ids_read(st, k, acc) ==
    IF k = 0 THEN Ok(acc, st)
    ELSE Try(read_str(st), LAMBDA r : ids_read(r.st, k - 1, acc \cup {r.v}))

\* one recipe
recipe_read(st) ==
    Try(read_str(st), LAMBDA id :
    Try(read_metadata(id.st), LAMBDA metadata :
    Try(read_ratio(metadata.st), LAMBDA time :
    Try(read_usize(time.st), LAMBDA ingredient_count :
    Try(ingredients_read(ingredient_count.st, ingredient_count.v, <<>>), LAMBDA ingredients :
    Try(read_usize(ingredients.st), LAMBDA product_count :
    Try(products_read(product_count.st, product_count.v, <<>>), LAMBDA products :
    Try(read_usize(products.st), LAMBDA crafted_in_count :
    Try(ids_read(crafted_in_count.st, crafted_in_count.v, {}), LAMBDA crafted_in :
    Ok([id |-> id.v,
        metadata |-> metadata.v,
        time |-> time.v,
        ingredients |-> ingredients.v,
        products |-> products.v,
        crafted_in |-> crafted_in.v,
        supported_modules |-> {}], crafted_in.st))))))))))

\* the limitations of a module, by its flag
limitations_read(st, flag) ==
    IF flag = <<Ch_0>> THEN Ok([has_limitations |-> FALSE, limitations |-> {}], st)
    ELSE IF flag = <<Ch_1>>
    THEN Try(read_usize(st), LAMBDA limitation_count :
         Try(ids_read(limitation_count.st, limitation_count.v, {}), LAMBDA limitations :
         Ok([has_limitations |-> TRUE, limitations |-> limitations.v], limitations.st)))
    ELSE Err("expected limitations flag on item to be 0 or 1", st)

\* the module part of an item: the modifiers and the limitations
module_read(st, id) ==
    Try(read_ratio(st), LAMBDA modifier_energy :
    Try(read_ratio(modifier_energy.st), LAMBDA modifier_speed :
    Try(read_ratio(modifier_speed.st), LAMBDA modifier_productivity :
    Try(read_ratio(modifier_productivity.st), LAMBDA modifier_pollution :
    Try(read_line(modifier_pollution.st), LAMBDA has_limitations :
    Try(limitations_read(has_limitations.st, has_limitations.v), LAMBDA l :
    Ok([module |-> [id |-> id,
                    modifier_energy |-> modifier_energy.v,
                    modifier_speed |-> modifier_speed.v,
                    modifier_productivity |-> modifier_productivity.v,
                    modifier_pollution |-> modifier_pollution.v],
        has_limitations |-> l.v.has_limitations,
        limitations |-> l.v.limitations], l.st)))))))

\* one item, up to the limitations of a module
item_read(st) ==
    Try(read_str(st), LAMBDA id :
    Try(read_metadata(id.st), LAMBDA metadata :
    Try(read_line(metadata.st), LAMBDA is_module :
        IF is_module.v = <<Ch_0>>
        THEN Ok([id |-> id.v, metadata |-> metadata.v, is_module |-> FALSE], is_module.st)
        ELSE IF is_module.v = <<Ch_1>>
        THEN Try(module_read(is_module.st, id.v), LAMBDA m :
             Ok([id |-> id.v, metadata |-> metadata.v, is_module |-> TRUE,
                 module |-> m.v.module,
                 has_limitations |-> m.v.has_limitations,
                 limitations |-> m.v.limitations], m.st))
        ELSE Err("expected module flag on item to be 0 or 1", is_module.st))))

\* one fluid
fluid_read(st) ==
    Try(read_str(st), LAMBDA id :
    Try(read_metadata(id.st), LAMBDA metadata :
    Ok([id |-> id.v, metadata |-> metadata.v], metadata.st)))

\* a module without limitations goes to no recipe
all_recipes_none(recipes) == {}

\* recipes.iter().map(|recipe| recipe.id).collect(): the recipes read so far
all_recipes(recipes) == DOMAIN recipes

\* a loop over the limitations that passes over a recipe it does not find
RECURSIVE attach_module_lenient(_, _, _)
attach_module_lenient(recipes, order, id) ==
    IF order = <<>> THEN [ok |-> TRUE, recipes |-> recipes]
    ELSE IF Head(order) \notin DOMAIN recipes
    THEN attach_module_lenient(recipes, Tail(order), id)
    ELSE LET recipe == [recipes[Head(order)] EXCEPT !.supported_modules = @ \cup {id}]
         IN  attach_module_lenient(SetInsert(SetTake(recipes, Head(order)), Head(order), recipe),
                                   Tail(order), id)

\* a loop that takes the recipe and does not put it back
RECURSIVE attach_module_taken(_, _, _)
attach_module_taken(recipes, order, id) ==
    IF order = <<>> THEN [ok |-> TRUE, recipes |-> recipes]
    ELSE IF Head(order) \notin DOMAIN recipes
    THEN [ok |-> FALSE, recipes |-> recipes]
    ELSE attach_module_taken(SetTake(recipes, Head(order)), Tail(order), id)

\* for limitation in limitations { take, insert the module, put back }
RECURSIVE attach_module(_, _, _)
attach_module(recipes, order, id) ==
    IF order = <<>> THEN [ok |-> TRUE, recipes |-> recipes]
    ELSE IF Head(order) \notin DOMAIN recipes
    THEN [ok |-> FALSE, recipes |-> recipes]
    ELSE LET recipe == [recipes[Head(order)] EXCEPT !.supported_modules = @ \cup {id}]
         IN  attach_module(SetInsert(SetTake(recipes, Head(order)), Head(order), recipe),
                           Tail(order), id)

\* the orders in which a HashSet may be iterated
Orders(S) ==
    {q \in [1..Cardinality(S) -> S] : \A i, j \in 1..Cardinality(S) : i # j => q[i] # q[j]}

\* a filter that forgets the pollution channel
get_allowed_modules_3(modules, allowed_effects) ==
    {m \in DOMAIN modules :
        /\ allowed_effects.energy \/ is_zero(modules[m].modifier_energy)
        /\ allowed_effects.speed \/ is_zero(modules[m].modifier_speed)
        /\ allowed_effects.productivity \/ is_zero(modules[m].modifier_productivity)}

\* get_allowed_modules
get_allowed_modules(modules, allowed_effects) ==
    {m \in DOMAIN modules :
        /\ allowed_effects.energy \/ is_zero(modules[m].modifier_energy)
        /\ allowed_effects.speed \/ is_zero(modules[m].modifier_speed)
        /\ allowed_effects.productivity \/ is_zero(modules[m].modifier_productivity)
        /\ allowed_effects.pollution \/ is_zero(modules[m].modifier_pollution)}

(***************************************************************************)
(* transform_data: the steps                                               *)
(***************************************************************************)
NoCounts == [machine |-> 0, beacon |-> 0, recipe |-> 0, item |-> 0, fluid |-> 0]

TdStart ==
    [pc |-> "header", iter |-> 1, counts |-> NoCounts, n |-> 0,
     machines |-> EmptyMap, beacons |-> EmptyMap, recipes |-> EmptyMap,
     modules |-> EmptyMap, items |-> EmptyMap, fluids |-> EmptyMap,
     err |-> "", game_data |-> None]

\* the iterator and the interner as the readers see them
IterState == [p |-> td.iter, tab |-> interner]

\* return Err(e), or a panic on its way up: the iterator and the interner
\* stay as the failed reader left them
TdFail(e, st, locals) ==
    /\ td' = [locals EXCEPT !.pc = IF e = "panic" THEN "panic" ELSE "err",
                            !.err = e, !.iter = st.p]
    /\ interner' = st.tab

\* the five lengths of the first line
header_lengths(parts, lengths, st) ==
    IF \E i \in 1..Len(parts) : ~lengths[i].ok
    THEN TdFail("cannot read lengths from the first line", st, td)
    ELSE IF Len(parts) # 5
    THEN TdFail("expected 5 lengths on the first line", st, td)
    ELSE /\ td' = [td EXCEPT !.pc = "machines", !.iter = 2, !.n = 0,
                             !.counts = [machine |-> lengths[1].v,
                                         beacon  |-> lengths[2].v,
                                         recipe  |-> lengths[3].v,
                                         item    |-> lengths[4].v,
                                         fluid   |-> lengths[5].v]]
         /\ UNCHANGED interner

\* the parts of the first line, each parsed as usize
header_parts(parts) ==
    header_lengths(parts, [i \in 1..Len(parts) |-> parse_usize(parts[i])],
                   [IterState EXCEPT !.p = 2])

\* the first line: five lengths
TdHeader ==
    /\ td.pc = "header"
    /\ IF Len(lines) < 1
       THEN TdFail("unexpected end", IterState, td)
       ELSE header_parts(split(lines[1], US, <<>>))
    /\ UNCHANGED <<rwlock, thr, issued, calls, extractVars, readVars, given, lines>>

\* a machine that was read goes into the HashMap, a failed read ends the run
machine_insert(r) ==
    IF ~r.ok THEN TdFail(r.err, r.st, td)
    ELSE /\ td' = [td EXCEPT !.iter = r.st.p, !.n = @ + 1,
                             !.machines = MapPut(@, r.v.id,
                                 [obj |-> r.v.obj, allowed_effects |-> r.v.allowed_effects])]
         /\ interner' = r.st.tab

\* the next machine goes into the HashMap
TdMachine ==
    /\ td.pc = "machines"
    /\ td.n < td.counts.machine
    /\ machine_insert(machine_read(IterState))
    /\ UNCHANGED <<rwlock, thr, issued, calls, extractVars, readVars, given, lines>>

\* machines.len() != machine_count
TdMachinesDone ==
    /\ td.pc = "machines"
    /\ td.n = td.counts.machine
    /\ IF Cardinality(DOMAIN td.machines) # td.counts.machine
       THEN td' = [td EXCEPT !.pc = "err", !.err = "duplicate machines in exported data set"]
       ELSE td' = [td EXCEPT !.pc = "beacons", !.n = 0]
    /\ UNCHANGED <<internVars, extractVars, readVars, given, lines>>

\* a beacon that was read goes into the HashMap, a failed read ends the run
beacon_insert(r) ==
    IF ~r.ok THEN TdFail(r.err, r.st, td)
    ELSE /\ td' = [td EXCEPT !.iter = r.st.p, !.n = @ + 1,
                             !.beacons = MapPut(@, r.v.id,
                                 [obj |-> r.v.obj, allowed_effects |-> r.v.allowed_effects])]
         /\ interner' = r.st.tab

\* the next beacon goes into the HashMap
TdBeacon ==
    /\ td.pc = "beacons"
    /\ td.n < td.counts.beacon
    /\ beacon_insert(beacon_read(IterState))
    /\ UNCHANGED <<rwlock, thr, issued, calls, extractVars, readVars, given, lines>>

\* the beacons are collected; their number is not compared with beacon_count
TdBeaconsDone ==
    /\ td.pc = "beacons"
    /\ td.n = td.counts.beacon
    /\ td' = [td EXCEPT !.pc = "recipes", !.n = 0]
    /\ UNCHANGED <<internVars, extractVars, readVars, given, lines>>

\* a recipe that was read goes into the HashSet, a failed read ends the run
recipe_insert(r) ==
    IF ~r.ok THEN TdFail(r.err, r.st, td)
    ELSE /\ td' = [td EXCEPT !.iter = r.st.p, !.n = @ + 1,
                             !.recipes = SetInsert(@, r.v.id, r.v)]
         /\ interner' = r.st.tab

\* the next recipe goes into the HashSet
TdRecipe ==
    /\ td.pc = "recipes"
    /\ td.n < td.counts.recipe
    /\ recipe_insert(recipe_read(IterState))
    /\ UNCHANGED <<rwlock, thr, issued, calls, extractVars, readVars, given, lines>>

\* recipes.len() != recipe_count
TdRecipesDone ==
    /\ td.pc = "recipes"
    /\ td.n = td.counts.recipe
    /\ IF Cardinality(DOMAIN td.recipes) # td.counts.recipe
       THEN td' = [td EXCEPT !.pc = "err", !.err = "duplicate recipes in exported data set"]
       ELSE td' = [td EXCEPT !.pc = "items", !.n = 0]
    /\ UNCHANGED <<internVars, extractVars, readVars, given, lines>>

\* the recipes after the module was attached, or the error of a missing one
module_attached(r, modules, a) ==
    IF ~a.ok
    THEN TdFail("module limitation contains non-existent recipe", r.st,
                [td EXCEPT !.modules = modules, !.recipes = a.recipes])
    ELSE /\ td' = [td EXCEPT !.iter = r.st.p, !.n = @ + 1,
                             !.modules = modules,
                             !.recipes = a.recipes,
                             !.items = SetInsert(@, r.v.id,
                                 [id |-> r.v.id, metadata |-> r.v.metadata])]
         /\ interner' = r.st.tab

\* the loop over the limitations without modules.insert(module)
module_insert_unlisted(r, modules, limitations) ==
    \E order \in Orders(limitations) :
        module_attached(r, td.modules, attach_module(td.recipes, order, r.v.id))

\* modules.insert(module), then the loop over the limitations in some order
module_insert(r, modules, limitations) ==
    \E order \in Orders(limitations) :
        module_attached(r, modules, attach_module(td.recipes, order, r.v.id))

\* an item that was read goes into the HashSet, its module to the recipes
item_insert(r) ==
    IF ~r.ok THEN TdFail(r.err, r.st, td)
    ELSE IF ~r.v.is_module
    THEN /\ td' = [td EXCEPT !.iter = r.st.p, !.n = @ + 1,
                             !.items = SetInsert(@, r.v.id,
                                 [id |-> r.v.id, metadata |-> r.v.metadata])]
         /\ interner' = r.st.tab
    ELSE module_insert(r, SetInsert(td.modules, r.v.id, r.v.module),
                       IF r.v.has_limitations THEN r.v.limitations
                       ELSE all_recipes(td.recipes))

\* the next item; a module is put into modules and attached to its recipes
TdItem ==
    /\ td.pc = "items"
    /\ td.n < td.counts.item
    /\ item_insert(item_read(IterState))
    /\ UNCHANGED <<rwlock, thr, issued, calls, extractVars, readVars, given, lines>>

\* items.len() != item_count
TdItemsDone ==
    /\ td.pc = "items"
    /\ td.n = td.counts.item
    /\ IF Cardinality(DOMAIN td.items) # td.counts.item
       THEN td' = [td EXCEPT !.pc = "err", !.err = "duplicate items in exported data set"]
       ELSE td' = [td EXCEPT !.pc = "fluids", !.n = 0]
    /\ UNCHANGED <<internVars, extractVars, readVars, given, lines>>

\* a fluid that was read goes into the HashSet, a failed read ends the run
fluid_insert(r) ==
    IF ~r.ok THEN TdFail(r.err, r.st, td)
    ELSE /\ td' = [td EXCEPT !.iter = r.st.p, !.n = @ + 1,
                             !.fluids = SetInsert(@, r.v.id, r.v)]
         /\ interner' = r.st.tab

\* the next fluid goes into the HashSet
TdFluid ==
    /\ td.pc = "fluids"
    /\ td.n < td.counts.fluid
    /\ fluid_insert(fluid_read(IterState))
    /\ UNCHANGED <<rwlock, thr, issued, calls, extractVars, readVars, given, lines>>

\* fluids.len() != fluid_count, then "Combine data" and Ok(GameData { .. })
TdCombine ==
    /\ td.pc = "fluids"
    /\ td.n = td.counts.fluid
    /\ IF Cardinality(DOMAIN td.fluids) # td.counts.fluid
       THEN td' = [td EXCEPT !.pc = "err", !.err = "duplicate fluids in exported data set"]
       ELSE LET machines == [id \in DOMAIN td.machines |->
                                [td.machines[id].obj EXCEPT !.supported_modules =
                                    get_allowed_modules(td.modules, td.machines[id].allowed_effects)]]
                beacons  == [id \in DOMAIN td.beacons |->
                                [td.beacons[id].obj EXCEPT !.supported_modules =
                                    get_allowed_modules(td.modules, td.beacons[id].allowed_effects)]]
            IN  td' = [td EXCEPT !.pc = "done",
                                 !.game_data = Some([tile_metadata |-> None,
                                                     items    |-> td.items,
                                                     fluids   |-> td.fluids,
                                                     recipes  |-> td.recipes,
                                                     machines |-> machines,
                                                     beacons  |-> beacons,
                                                     modules  |-> td.modules])]
    /\ UNCHANGED <<internVars, extractVars, readVars, given, lines>>

NextData ==
    \/ TdHeader
    \/ TdMachine \/ TdMachinesDone
    \/ TdBeacon \/ TdBeaconsDone
    \/ TdRecipe \/ TdRecipesDone
    \/ TdItem \/ TdItemsDone
    \/ TdFluid \/ TdCombine

(***************************************************************************)
(* The exported data sets transform_data is run on, and their token        *)
(* vectors                                                                 *)
(***************************************************************************)
Ch_k == 107

\* "n\x1fn" and "k\x1fUnknown key: \"k\""
NameToken == <<Ch_n, US, Ch_n>>
DescToken == <<Ch_k, US>> \o UnknownKeyPrefix \o <<Ch_k, Ch_quote>>

T0    == <<Ch_0>>
T1    == <<Ch_1>>
THalf == <<Ch_0, Ch_dot, Ch_5>>
TNeg1 == <<Ch_minus, Ch_1>>

\* a count below ten as a token
CountToken(n) == <<Ch_0 + n>>

IdTexts == {<<Ch_a>>, <<Ch_b>>}

AllFlags == {<<w, x, y, z>> : w \in {Ch_0, Ch_1}, x \in {Ch_0, Ch_1},
                              y \in {Ch_0, Ch_1}, z \in {Ch_0, Ch_1}}
SomeFlags == {<<Ch_1, Ch_1, Ch_0, Ch_1>>, <<Ch_0, Ch_0, Ch_0, Ch_0>>}

\* the four modifiers of a module: energy, speed, productivity, pollution
NoEffect == <<T0, T0, T0, T0>>
SomeModifiers == {NoEffect, <<T0, T0, THalf, T0>>, <<TNeg1, T0, T0, T1>>}
AllModifiers == SomeModifiers \cup
                {<<THalf, T0, T0, T0>>, <<T0, T1, T0, T0>>, <<T0, T0, T0, TNeg1>>}

DeviceRecords(flags) == {[id |-> i, ae |-> f] : i \in IdTexts, f \in flags}
RecipeRecords == {[id |-> i, full |-> f] : i \in IdTexts, f \in BOOLEAN}
FluidRecords  == {[id |-> i] : i \in IdTexts}
ModuleRecords(ids, modifiers) ==
    {[id |-> i, is_module |-> TRUE, modifiers |-> m, has_limitations |-> FALSE,
      limitations |-> <<>>] : i \in ids, m \in modifiers}
ItemRecords ==
    {[id |-> i, is_module |-> FALSE, modifiers |-> NoEffect, has_limitations |-> FALSE,
      limitations |-> <<>>] : i \in IdTexts}
    \cup ModuleRecords(IdTexts, SomeModifiers)
    \cup {[id |-> i, is_module |-> TRUE, modifiers |-> NoEffect, has_limitations |-> TRUE,
           limitations |-> l] :
              i \in IdTexts, l \in {<<<<Ch_a>>>>, <<<<Ch_b>>>>, <<<<Ch_a>>, <<Ch_b>>>>}}

NoRecords ==
    [machines |-> <<>>, beacons |-> <<>>, recipes |-> <<>>, items |-> <<>>,
     fluids |-> <<>>, item_count |-> 0]

MachineTokens(m) == <<m.id, NameToken, DescToken, T1, THalf, T0, CountToken(2), m.ae>>
BeaconTokens(b)  == <<b.id, NameToken, DescToken, THalf, b.ae>>
RecipeTokens(r)  ==
    IF ~r.full
    THEN <<r.id, NameToken, DescToken, T1, CountToken(0), CountToken(0), CountToken(0)>>
    ELSE <<r.id, NameToken, DescToken, THalf,
           CountToken(2),
             KwItem, <<Ch_a>>, T1, T0,
             KwFluid, <<Ch_b>>, T1, T0, <<Ch_1, Ch_0>>, T1,
           CountToken(2),
             KwItem, <<Ch_a>>, KwFixed, T1, T0,
             KwFluid, <<Ch_b>>, T1, KwProbability, T0, T1, THalf,
           CountToken(1), <<Ch_a>> >>
ItemTokens(i) ==
    <<i.id, NameToken, DescToken>> \o
    (IF ~i.is_module THEN <<T0>>
     ELSE <<T1>> \o i.modifiers \o
          (IF ~i.has_limitations THEN <<T0>>
           ELSE <<T1, CountToken(Len(i.limitations))>> \o i.limitations))
FluidTokens(f) == <<f.id, NameToken, DescToken>>

RECURSIVE Flatten(_)
Flatten(ss) == IF ss = <<>> THEN <<>> ELSE Head(ss) \o Flatten(Tail(ss))

\* the five lengths of the first line, separated by \x1f
HeaderToken(g) ==
    CountToken(Len(g.machines)) \o <<US>> \o CountToken(Len(g.beacons)) \o <<US>> \o
    CountToken(Len(g.recipes)) \o <<US>> \o CountToken(g.item_count) \o <<US>> \o
    CountToken(Len(g.fluids))

\* the token vector of a data set
TokensOf(g) ==
    <<HeaderToken(g)>>
    \o Flatten([i \in 1..Len(g.machines) |-> MachineTokens(g.machines[i])])
    \o Flatten([i \in 1..Len(g.beacons) |-> BeaconTokens(g.beacons[i])])
    \o Flatten([i \in 1..Len(g.recipes) |-> RecipeTokens(g.recipes[i])])
    \o Flatten([i \in 1..Len(g.items) |-> ItemTokens(g.items[i])])
    \o Flatten([i \in 1..Len(g.fluids) |-> FluidTokens(g.fluids[i])])

\* how many records of each category a data set has
RecordCounts(max) ==
    {l \in [1..5 -> 0..max] : l[1] + l[2] + l[3] + l[4] + l[5] <= max}

\* the header tells the number of items right, one too few or one too many
ItemCounts(n) == {c \in {n - 1, n, n + 1} : c >= 0}

\* the module of a data set written to try the allowed effects
EffectModule(i, m) ==
    [id |-> <<Ch_a + i>>, is_module |-> TRUE, modifiers |-> m,
     has_limitations |-> FALSE, limitations |-> <<>>]

(***************************************************************************)
(* Specifications                                                          *)
(***************************************************************************)
\* the locals of a function that is not running
ExIdle == [ExStart EXCEPT !.pc = "idle"]
RdIdle == [pc |-> "idle"]
TdIdle == [TdStart EXCEPT !.pc = "idle"]

\* threads interning and resolving texts
InitIntern ==
    /\ interner = EmptyInterner
    /\ rwlock = LockFree
    /\ thr = [t \in Threads |-> IdleThread]
    /\ issued = <<>>
    /\ calls = 0
    /\ output = <<>>
    /\ ex = ExIdle
    /\ given = NoRecords
    /\ lines = <<>>
    /\ td = TdIdle
    /\ rd = RdIdle

SpecIntern == InitIntern /\ [][NextIntern]_vars

\* extract_data on every short output text
InitExtract ==
    /\ interner = EmptyInterner
    /\ rwlock = LockFree
    /\ thr = [t \in Threads |-> IdleThread]
    /\ issued = <<>>
    /\ calls = 0
    /\ output \in SeqsUpTo(OutChars, MaxOutLen) \cup SeqsUpTo(FrameChars, MaxFrameLen)
    /\ ex = ExStart
    /\ given = NoRecords
    /\ lines = <<>>
    /\ td = TdIdle
    /\ rd = RdIdle

SpecExtract == InitExtract /\ [][NextExtract]_vars

\* transform_data on the token vectors of small data sets
InitData ==
    /\ interner = EmptyInterner
    /\ rwlock = LockFree
    /\ thr = [t \in Threads |-> IdleThread]
    /\ issued = <<>>
    /\ calls = 0
    /\ output = <<>>
    /\ ex = ExIdle
    /\ \E l \in RecordCounts(MaxRecords) :
         \E ms \in [1..l[1] -> DeviceRecords(SomeFlags)],
            bs \in [1..l[2] -> DeviceRecords(SomeFlags)],
            rs \in [1..l[3] -> RecipeRecords],
            is \in [1..l[4] -> ItemRecords],
            fs \in [1..l[5] -> FluidRecords],
            c \in ItemCounts(l[4]) :
                given = [machines |-> ms, beacons |-> bs, recipes |-> rs, items |-> is,
                         fluids |-> fs, item_count |-> c]
    /\ lines = TokensOf(given)
    /\ td = TdStart
    /\ rd = RdIdle

SpecData == InitData /\ [][NextData]_vars

\* transform_data on data sets that try the allowed effects
InitEffects ==
    /\ interner = EmptyInterner
    /\ rwlock = LockFree
    /\ thr = [t \in Threads |-> IdleThread]
    /\ issued = <<>>
    /\ calls = 0
    /\ output = <<>>
    /\ ex = ExIdle
    /\ \E k \in 1..MaxEffModules :
         \E fm \in AllFlags, fb \in AllFlags, mods \in [1..k -> AllModifiers],
            nr \in 0..1, nf \in 0..1 :
                given = [machines |-> <<[id |-> <<Ch_a>>, ae |-> fm]>>,
                         beacons |-> <<[id |-> <<Ch_b>>, ae |-> fb]>>,
                         recipes |-> [i \in 1..nr |-> [id |-> <<Ch_a>>, full |-> FALSE]],
                         items |-> [i \in 1..k |-> EffectModule(i, mods[i])],
                         fluids |-> [i \in 1..nf |-> [id |-> <<Ch_b>>]],
                         item_count |-> k]
    /\ lines = TokensOf(given)
    /\ td = TdStart
    /\ rd = RdIdle

SpecEffects == InitEffects /\ [][NextData]_vars

\* the ID of the i-th record of a category
IdOf(i) == <<Ch_a + i>>

\* the shapes of an item record; a limited module names the first recipe
ItemShapes(nr) == {"item", "module"} \cup (IF nr >= 1 THEN {"limited"} ELSE {})

\* the i-th item record in a shape
ShapedItem(i, shape) ==
    [id |-> IdOf(i), is_module |-> shape # "item", modifiers |-> NoEffect,
     has_limitations |-> shape = "limited",
     limitations |-> IF shape = "limited" THEN <<IdOf(1)>> ELSE <<>>]

\* a well-formed data set with l[k] records in category k, the IDs of a category distinct
ShapedRecords(l, full, shapes) ==
    [machines |-> [i \in 1..l[1] |-> [id |-> IdOf(i), ae |-> <<Ch_1, Ch_0, Ch_1, Ch_0>>]],
     beacons  |-> [i \in 1..l[2] |-> [id |-> IdOf(i), ae |-> <<Ch_0, Ch_1, Ch_0, Ch_1>>]],
     recipes  |-> [i \in 1..l[3] |-> [id |-> IdOf(i), full |-> full]],
     items    |-> [i \in 1..l[4] |-> ShapedItem(i, shapes[i])],
     fluids   |-> [i \in 1..l[5] |-> [id |-> IdOf(i)]],
     item_count |-> l[4]]

\* transform_data on the token vectors of well-formed data sets and on each
\* of their proper prefixes
InitTrunc ==
    /\ interner = EmptyInterner
    /\ rwlock = LockFree
    /\ thr = [t \in Threads |-> IdleThread]
    /\ issued = <<>>
    /\ calls = 0
    /\ output = <<>>
    /\ ex = ExIdle
    /\ \E l \in [1..5 -> 0..MaxPerKind], full \in BOOLEAN :
         \E shapes \in [1..l[4] -> ItemShapes(l[3])] :
           \E cut \in 0..Len(TokensOf(ShapedRecords(l, full, shapes))) :
                /\ given = ShapedRecords(l, full, shapes)
                /\ lines = SubSeq(TokensOf(ShapedRecords(l, full, shapes)), 1, cut)
    /\ td = TdStart
    /\ rd = RdIdle

SpecTrunc == InitTrunc /\ [][NextData]_vars

(***************************************************************************)
(* Single calls of the readers of parsing.rs                               *)
(***************************************************************************)
\* what a call gave back: the value, the error or the panic
Outcome(r) ==
    IF r.ok THEN [kind |-> "ok", v |-> r.v]
    ELSE [kind |-> IF r.err = "panic" THEN "panic" ELSE "err", err |-> r.err]

\* a reader on the first line of the iterator
FirstLine == [p |-> 1, tab |-> interner]

\* the call returns or unwinds; the interner keeps what the call interned
reader_return(r) ==
    /\ rd' = [rd EXCEPT !.pc = "ret", !.res = Outcome(r)]
    /\ interner' = r.st.tab

\* read_localised_str_internal(p, required)
RdLocalised ==
    /\ rd.pc = "call"
    /\ rd.fn = "read_localised_str_internal"
    /\ reader_return(read_localised_str_internal(FirstLine, rd.required))
    /\ UNCHANGED <<rwlock, thr, issued, calls, extractVars, dataVars>>

\* the two bytes of U+00E9
EAcute == <<195, 169>>

\* n bytes c
RECURSIVE Fill(_, _)
Fill(c, n) == IF n = 0 THEN <<>> ELSE <<c>> \o Fill(c, n - 1)

\* the parts of a line, joined by \x1f
RECURSIVE Join(_)
Join(parts) ==
    IF Len(parts) = 1 THEN parts[1] ELSE parts[1] \o <<US>> \o Join(Tail(parts))

\* keys, and the texts a value may echo
KeyTexts == SeqsUpTo({Ch_k, Ch_n}, MaxKeyLen) \cup {EAcute}

\* values: short ones, the fallback of the game with and without its closing
\* quote, and texts as long as a fallback with a two-byte character in them
ValueTexts ==
    {<<>>, <<Ch_n>>, EAcute}
    \cup {UnknownKeyPrefix \o b \o <<t>> : b \in KeyTexts, t \in {Ch_quote, Ch_k}}
    \cup {UnknownKeyPrefix \o b \o EAcute : b \in SeqsUpTo({Ch_k}, MaxKeyLen - 1)}
    \cup {Fill(Ch_a, 13) \o EAcute \o b : b \in SeqsUpTo({Ch_k}, MaxKeyLen)}
    \cup {Fill(Ch_a, 15) \o b : b \in SeqsUpTo({Ch_k}, MaxKeyLen)}

\* lines of one, two and three parts
LocalisedParts ==
    {<<k>> : k \in KeyTexts}
    \cup {<<k, v>> : k \in KeyTexts, v \in ValueTexts}
    \cup {<<k, v, <<Ch_n>> >> : k \in KeyTexts, v \in {<<>>, <<Ch_n>>}}

\* read_localised_str_internal on one line
InitLocalised ==
    /\ interner = EmptyInterner
    /\ rwlock = LockFree
    /\ thr = [t \in Threads |-> IdleThread]
    /\ issued = <<>>
    /\ calls = 0
    /\ output = <<>>
    /\ ex = ExIdle
    /\ given = NoRecords
    /\ td = TdIdle
    /\ \E parts \in LocalisedParts, required \in BOOLEAN :
          /\ rd = [pc |-> "call", fn |-> "read_localised_str_internal",
                   parts |-> parts, required |-> required, res |-> None]
          /\ lines = <<Join(parts)>>

SpecLocalised == InitLocalised /\ [][RdLocalised]_vars

\* read_ratio(p)
RdRatio ==
    /\ rd.pc = "call"
    /\ rd.fn = "read_ratio"
    /\ reader_return(read_ratio(FirstLine))
    /\ UNCHANGED <<rwlock, thr, issued, calls, extractVars, dataVars>>

\* the text before the period of a ratio token: nothing, digits, other bytes
WholeTexts == {<<>>, <<Ch_0>>, <<Ch_1>>, <<Ch_1, Ch_9>>, <<Ch_a>>, <<Ch_1, Ch_a>>, <<Ch_minus, Ch_1>>}

\* the text from the period on: nothing, fractions the search for the
\* closest fraction meets early, exponents, and texts that are no f64
FracTexts ==
    {<<>>, <<Ch_dot>>, <<Ch_dot, Ch_a>>, <<Ch_dot, Ch_0>>,
     <<Ch_dot, Ch_5>>, <<Ch_dot, Ch_1, Ch_1 + 1, Ch_5>>, <<Ch_dot, Ch_9>>, <<Ch_dot, Ch_0, Ch_5>>,
     <<Ch_dot, Ch_5, Ch_e, Ch_0>>, <<Ch_dot, Ch_5, Ch_E, Ch_0>>, <<Ch_dot, Ch_5, Ch_E, Ch_minus, Ch_1>>,
     <<Ch_dot, Ch_5, Ch_E>>, <<Ch_dot, Ch_E, Ch_1>>, <<Ch_dot, Ch_e>>}

\* fractions no denominator up to 1000 gives exactly, 0.3333 and 0.0005
SlowTexts ==
    {<<Ch_0, Ch_dot, Ch_1 + 2, Ch_1 + 2, Ch_1 + 2, Ch_1 + 2>>,
     <<Ch_minus, Ch_1, Ch_dot, Ch_0, Ch_0, Ch_0, Ch_5>>}

\* an optional minus, a whole part and a fractional part
RatioTexts ==
    {sign \o w \o f : sign \in {<<>>, <<Ch_minus>>}, w \in WholeTexts, f \in FracTexts}
    \cup SlowTexts

\* read_ratio on one line
InitRatio ==
    /\ interner = EmptyInterner
    /\ rwlock = LockFree
    /\ thr = [t \in Threads |-> IdleThread]
    /\ issued = <<>>
    /\ calls = 0
    /\ output = <<>>
    /\ ex = ExIdle
    /\ given = NoRecords
    /\ td = TdIdle
    /\ \E t \in RatioTexts :
          /\ rd = [pc |-> "call", fn |-> "read_ratio", token |-> t, res |-> None]
          /\ lines = <<t>>

SpecRatio == InitRatio /\ [][RdRatio]_vars

(***************************************************************************)
(* transform_icons: the icons of the entities are loaded, equal images are *)
(* merged, the images are packed into one atlas and every entity gets its  *)
(* Icon.  An image is the raw buffer combine_image gives for the dark and  *)
(* the light file of an entity; buffers are told apart by a number, equal  *)
(* numbers are byte-identical buffers.  The atlas is kept tile by tile:    *)
(* the pixel origin of each tile written and the buffer copied there.      *)
(***************************************************************************)
TILE_WIDTH  == 32
TILE_HEIGHT == 32

MaxIconIds == 2             \* entities of one collection
MaxImages  == 30            \* distinct images packed into one atlas

\* the collections in the order transform_icons resolves them
Categories == <<"items", "fluids", "recipes", "machines", "beacons">>

\* the directory the icons of a collection are exported to
DirOf(c) == IF c \in {"machines", "beacons"} THEN "entities" ELSE c

Dirs == <<"items", "fluids", "recipes", "entities">>

\* a file that image::open cannot read or that is not 32x32
Unreadable == 0

\* <&str as Ord>::lt: byte by byte, a prefix before the longer text
RECURSIVE str_lt(_, _)
str_lt(s, t) ==
    IF t = <<>> THEN FALSE
    ELSE IF s = <<>> THEN TRUE
    ELSE IF Head(s) # Head(t) THEN Head(s) < Head(t)
    ELSE str_lt(Tail(s), Tail(t))

\* a key that sorts by the symbol of the ID, not by its text
sort_key_symbol(tab, id) == <<id>>

\* |&(_, s)| s, with s = id.as_ref().str()
sort_key(tab, id) == resolve_unchecked(tab, id)

\* the stable sort puts an element behind the last one that is not greater
RECURSIVE sort_insert(_, _, _)
sort_insert(tab, sorted, id) ==
    IF sorted = <<>> THEN <<id>>
    ELSE IF str_lt(sort_key(tab, id), sort_key(tab, sorted[Len(sorted)]))
    THEN Append(sort_insert(tab, SubSeq(sorted, 1, Len(sorted) - 1), id), sorted[Len(sorted)])
    ELSE Append(sorted, id)

\* sorted.sort_by_key(|&(_, s)| s)
RECURSIVE sort_by_key(_, _)
sort_by_key(tab, ids) ==
    IF ids = <<>> THEN <<>>
    ELSE sort_insert(tab, sort_by_key(tab, SubSeq(ids, 1, Len(ids) - 1)), ids[Len(ids)])

\* an entry that gives every image the next index, known or not
entry_or_insert_always(images, image) ==
    [b \in DOMAIN images \cup {image} |->
        IF b = image THEN Cardinality(DOMAIN images) ELSE images[b]]

\* images.entry(image).or_insert(image_count)
entry_or_insert(images, image) ==
    IF image \in DOMAIN images THEN images
    ELSE [b \in DOMAIN images \cup {image} |->
             IF b = image THEN Cardinality(DOMAIN images) ELSE images[b]]

\* Ok((id, index)) collected into the HashMap<ID, usize>
icon_insert(icons, id, index) ==
    [i \in DOMAIN icons \cup {id} |-> IF i = id THEN index ELSE icons[i]]

\* the closure of resolve_image on the IDs from the k-th on: load_image of
\* both files, combine_image, the entry of the buffer; the first error ends it
RECURSIVE resolve_sorted(_, _, _, _, _, _)
resolve_entry(tab, files, sorted, k, images, icons) ==
    resolve_sorted(tab, files, sorted, k + 1, images,
                   icon_insert(icons, sorted[k], images[files[resolve_unchecked(tab, sorted[k])]]))

resolve_sorted(tab, files, sorted, k, images, icons) ==
    IF k > Len(sorted) THEN [ok |-> TRUE, images |-> images, icons |-> icons]
    ELSE IF files[resolve_unchecked(tab, sorted[k])] = Unreadable
    THEN [ok |-> FALSE, images |-> images, icons |-> icons]
    ELSE resolve_entry(tab, files, sorted, k,
                       entry_or_insert(images, files[resolve_unchecked(tab, sorted[k])]), icons)

NoIcons == [i \in {} |-> 0]

\* resolve_image on the IDs in the order the HashSet yields them
resolve_image(tab, files, images, iter) ==
    resolve_sorted(tab, files, sort_by_key(tab, iter), 1, images, NoIcons)

\* buf[index] = image for every (image, index) of the map
images_vec(images) ==
    [i \in 1..Cardinality(DOMAIN images) |->
        IF \E b \in DOMAIN images : images[b] = i - 1
        THEN CHOOSE b \in DOMAIN images : images[b] = i - 1
        ELSE Unreadable]

\* (n as f64).sqrt().ceil() as u32: the f64 square root is exact on squares
\* and strictly between two integers otherwise
ceil_sqrt(n) == CHOOSE c \in 0..n : c * c >= n /\ (c = 0 \/ (c - 1) * (c - 1) < n)

\* a packer that lays the images out in one row too few
rows_of_floor(n, columns) == n \div columns

\* (images.len() as u32 + columns - 1) / columns
rows_of(n, columns) == (n + columns - 1) \div columns

\* the pixel origin (bx, by) of the tile of an index
tile_origin(index, columns) ==
    <<(index % columns) * TILE_WIDTH, (index \div columns) * TILE_HEIGHT>>

\* the copy of one image to its tile
tile_write(tiles, origin, image) ==
    [o \in DOMAIN tiles \cup {origin} |-> IF o = origin THEN image ELSE tiles[o]]

NoTiles == [o \in {} |-> 0]

\* for (index, image) in images.iter().enumerate()
RECURSIVE pack_tiles(_, _, _, _)
pack_tiles(images, index, columns, tiles) ==
    IF index >= Len(images) THEN tiles
    ELSE pack_tiles(images, index + 1, columns,
                    tile_write(tiles, tile_origin(index, columns), images[index + 1]))

\* the tileset of target_width x target_height; a tile below the last row
\* is an index out of the bounds of the Vec
pack_grid(images, columns, rows) ==
    IF \E i \in 0..(Len(images) - 1) : tile_origin(i, columns)[2] >= rows * TILE_HEIGHT
    THEN [ok |-> FALSE]
    ELSE [ok |-> TRUE,
          image_size |-> <<columns * TILE_WIDTH, rows * TILE_HEIGHT>>,
          tiles |-> pack_tiles(images, 0, columns, NoTiles)]

\* columns, rows and the tileset of the images
pack(images) == pack_grid(images, ceil_sqrt(Len(images)),
                          rows_of(Len(images), ceil_sqrt(Len(images))))

\* a TileMetadata whose tile_count is the last index
TileMetadata_last(n, image_size) ==
    [tile_size |-> <<TILE_WIDTH, TILE_HEIGHT>>, tile_count |-> n - 1, image_size |-> image_size]

\* TileMetadata { tile_size, tile_count, image_size }
TileMetadata(n, image_size) ==
    [tile_size |-> <<TILE_WIDTH, TILE_HEIGHT>>, tile_count |-> n, image_size |-> image_size]

\* an Icon that stores the index itself
IconNew_raw(idx) == [nz |-> idx]

\* Icon::new: NonZeroU32 of idx + 1; the numbers of the model are all below u32::MAX
IconNew(idx) == [nz |-> idx + 1]

\* Icon::index
IconIndex(icon) == icon.nz - 1

\* Icon::position
IconPosition(icon, tile_metadata) ==
    <<(IconIndex(icon) % (tile_metadata.image_size[1] \div tile_metadata.tile_size[1]))
          * tile_metadata.tile_size[1],
      (IconIndex(icon) \div (tile_metadata.image_size[1] \div tile_metadata.tile_size[1]))
          * tile_metadata.tile_size[2]>>

\* the five collections of a model
Collections == {Categories[c] : c \in 1..Len(Categories)}

\* the collections in the order of the set_metadata! lines
MetadataOrder == <<"items", "fluids", "recipes", "machines", "beacons">>

\* the IDs of a set in ascending order
RECURSIVE Ascending(_)
Ascending(S) ==
    IF S = {} THEN <<>>
    ELSE <<CHOOSE x \in S : \A y \in S : x <= y>>
             \o Ascending(S \ {CHOOSE x \in S : \A y \in S : x <= y})

\* the first entry of the iteration for which the callback gives Err
first_err(f, iter) ==
    f[iter[CHOOSE k \in 1..Len(iter) : ~f[iter[k]].ok /\ \A j \in 1..(k - 1) : f[iter[j]].ok]]

\* a set_metadata! without `..entry.clone()`: only the ID and the metadata
set_metadata_bare(entries, f, iter) ==
    IF \E id \in DOMAIN entries : ~f[id].ok
    THEN [ok |-> FALSE, err |-> first_err(f, iter).err]
    ELSE [ok |-> TRUE, v |-> [id \in DOMAIN entries |-> [id |-> id, metadata |-> f[id].v]]]

\* set_metadata!: every entry cloned with the metadata the callback gives,
\* collected into a new HashSet; the first Err of the iteration ends it
set_metadata(entries, f, iter) ==
    IF \E id \in DOMAIN entries : ~f[id].ok
    THEN [ok |-> FALSE, err |-> first_err(f, iter).err]
    ELSE [ok |-> TRUE, v |-> [id \in DOMAIN entries |->
                                 [entries[id] EXCEPT !.metadata = f[id].v]]]

\* GameData::modify_metadata from the k-th collection on: the collection
\* is assigned when its set_metadata! is through, `?` returns the error
RECURSIVE modify_from(_, _, _, _)
modify_next(this, f, iters, k, r) ==
    IF ~r.ok THEN [this |-> this, ok |-> FALSE, err |-> r.err]
    ELSE modify_from([this EXCEPT ![MetadataOrder[k]] = r.v], f, iters, k + 1)

modify_from(this, f, iters, k) ==
    IF k > Len(MetadataOrder) THEN [this |-> this, ok |-> TRUE]
    ELSE modify_next(this, f, iters, k,
                     set_metadata(this[MetadataOrder[k]], f[MetadataOrder[k]],
                                  iters[MetadataOrder[k]]))

\* GameData::modify_metadata: the GameData afterwards and Ok(()) or Err(e)
modify_metadata(this, f, iters) == modify_from(this, f, iters, 1)

\* a closure that gives the metadata back as it is
icon_callback_keep(game_data, icons) ==
    [c \in DOMAIN icons |->
        [id \in DOMAIN game_data[c] |-> [ok |-> TRUE, v |-> game_data[c][id].metadata]]]

\* the closure of transform_icons: Metadata { icon, ..*meta } with
\* Some(Icon::new(index)) of the index of the ID
icon_callback(game_data, icons) ==
    [c \in DOMAIN icons |->
        [id \in DOMAIN game_data[c] |->
            [ok |-> TRUE,
             v  |-> [game_data[c][id].metadata EXCEPT !.icon = Some(IconNew(icons[c][id]))]]]]

\* the entity of a collection as transform_data leaves it: the name is the
\* text of the ID, recipes, machines and beacons support the module 1
IconEntity(c, id) ==
    IF c \in {"items", "fluids"}
    THEN [id |-> id,
          metadata |-> [localised_name |-> id, localised_description |-> None, icon |-> None]]
    ELSE [id |-> id,
          metadata |-> [localised_name |-> id, localised_description |-> None, icon |-> None],
          supported_modules |-> {1}]

\* the module that the item 1 is
IconModule == [id |-> 1, modifier_speed |-> [n |-> 1, d |-> 2]]

\* a GameData with the given IDs in its collections
GameDataOf(data) ==
    [tile_metadata |-> None,
     items    |-> [id \in data["items"] |-> IconEntity("items", id)],
     fluids   |-> [id \in data["fluids"] |-> IconEntity("fluids", id)],
     recipes  |-> [id \in data["recipes"] |-> IconEntity("recipes", id)],
     machines |-> [id \in data["machines"] |-> IconEntity("machines", id)],
     beacons  |-> [id \in data["beacons"] |-> IconEntity("beacons", id)],
     modules  |-> [id \in data["items"] \cap {1} |-> IconModule]]

IcCall(data, files) ==
    [pc |-> "resolve", fn |-> "transform_icons", data |-> data, files |-> files, cat |-> 1,
     game_data |-> GameDataOf(data),
     images |-> NoIcons, icons |-> [c \in DOMAIN data |-> NoIcons],
     tileset |-> None, written |-> None, tile_metadata |-> None, res |-> None]

\* one resolve_image call returned: the next collection, the packing, or Err
resolved(r) ==
    IF ~r.ok
    THEN [rd EXCEPT !.pc = "ret", !.images = r.images,
                    !.res = [kind |-> "err", err |-> "io::Error"]]
    ELSE [rd EXCEPT !.pc = IF rd.cat = Len(Categories) THEN "pack" ELSE "resolve",
                    !.cat = rd.cat + 1,
                    !.images = r.images,
                    !.icons[Categories[rd.cat]] = r.icons]

\* resolve_image(..)? on the collection whose turn it is, its HashSet
\* iterated in any order
IcResolve ==
    /\ rd.pc = "resolve"
    /\ rd.fn = "transform_icons"
    /\ \E iter \in Orders(rd.data[Categories[rd.cat]]) :
          rd' = resolved(resolve_image(interner, rd.files[DirOf(Categories[rd.cat])],
                                       rd.images, iter))
    /\ UNCHANGED <<interner, rwlock, thr, issued, calls, extractVars, dataVars>>

\* the tileset is there, or the bounds check of the Vec has panicked
packed(t) ==
    IF ~t.ok
    THEN [rd EXCEPT !.pc = "panic",
                    !.res = [kind |-> "panic", err |-> "index out of bounds"]]
    ELSE [rd EXCEPT !.pc = "write", !.tileset = Some(t)]

\* assert!(images.len() != 0) and the packing of the images
IcPack ==
    /\ rd.pc = "pack"
    /\ rd.fn = "transform_icons"
    /\ rd' = IF Cardinality(DOMAIN rd.images) = 0
             THEN [rd EXCEPT !.pc = "panic",
                             !.res = [kind |-> "panic",
                                      err |-> "assertion failed: images.len() != 0"]]
             ELSE packed(pack(images_vec(rd.images)))
    /\ UNCHANGED <<interner, rwlock, thr, issued, calls, extractVars, dataVars>>

\* the PNG of the tileset is written by write_file_safely, or the io error
\* is returned
IcWrite ==
    /\ rd.pc = "write"
    /\ rd.fn = "transform_icons"
    /\ \E done \in BOOLEAN :
          rd' = IF done
                THEN [rd EXCEPT !.pc = "metadata",
                                !.written = rd.tileset,
                                !.tile_metadata =
                                    Some(TileMetadata(Cardinality(DOMAIN rd.images),
                                                      rd.tileset.v.image_size))]
                ELSE [rd EXCEPT !.pc = "ret", !.res = [kind |-> "err", err |-> "io::Error"]]
    /\ UNCHANGED <<interner, rwlock, thr, issued, calls, extractVars, dataVars>>

\* the clone of the model with its tile_metadata
with_tiles(game_data, tile_metadata) == [game_data EXCEPT !.tile_metadata = tile_metadata]

\* let mut game_data = game_data.clone(), its tile_metadata, modify_metadata
\* with the icons, unwrap, and Ok(game_data).  The closure never gives Err,
\* so the order in which the sets are iterated does not show.
IcMetadata ==
    /\ rd.pc = "metadata"
    /\ rd.fn = "transform_icons"
    /\ rd' = [rd EXCEPT !.pc = "ret",
                        !.res = [kind |-> "ok",
                                 v |-> modify_metadata(
                                           with_tiles(rd.game_data, rd.tile_metadata),
                                           icon_callback(rd.game_data, rd.icons),
                                           [c \in DOMAIN rd.data |-> Ascending(rd.data[c])]).this]]
    /\ UNCHANGED <<interner, rwlock, thr, issued, calls, extractVars, dataVars>>

NextIcons == IcResolve \/ IcPack \/ IcWrite \/ IcMetadata

NextPack == IcPack \/ IcWrite \/ IcMetadata

\* the texts of the IDs: "b", "ab", ...
IconTextList == <<<<Ch_b>>, <<Ch_a, Ch_b>>, <<Ch_a>>, <<Ch_b, Ch_a>>>>
IconTexts == {IconTextList[i] : i \in 1..MaxIconIds}

\* the interner after the texts were interned in some order
RECURSIVE InternAll(_, _)
InternAll(tab, texts) ==
    IF texts = <<>> THEN tab
    ELSE InternAll(get_or_intern(tab, Head(texts)).tab, Tail(texts))

\* the files of the four directories are numbered 1, 2, ...; what the files
\* hold: all different images, all the same, one image per name, one per
\* directory, three images in turn, and one file that cannot be read
NoOfFile(d, text) ==
    (d - 1) * MaxIconIds + CHOOSE i \in 1..MaxIconIds : IconTextList[i] = text

FileImages ==
    {[f \in 1..(Len(Dirs) * MaxIconIds) |-> f],
     [f \in 1..(Len(Dirs) * MaxIconIds) |-> 1],
     [f \in 1..(Len(Dirs) * MaxIconIds) |-> ((f - 1) % MaxIconIds) + 1],
     [f \in 1..(Len(Dirs) * MaxIconIds) |-> ((f - 1) \div MaxIconIds) + 1],
     [f \in 1..(Len(Dirs) * MaxIconIds) |-> (f % 3) + 1],
     [f \in 1..(Len(Dirs) * MaxIconIds) |-> IF f = 2 THEN Unreadable ELSE f],
     [f \in 1..(Len(Dirs) * MaxIconIds) |-> IF f = Len(Dirs) * MaxIconIds THEN Unreadable ELSE 1]}

IconFiles(held) ==
    [dir \in {Dirs[d] : d \in 1..Len(Dirs)} |->
        [text \in IconTexts |->
            held[NoOfFile(CHOOSE d \in 1..Len(Dirs) : Dirs[d] = dir, text)]]]

\* the model as load_game_data gives it: without icons, or with those of
\* an earlier run
with_old_icons(game_data, old) ==
    [c \in DOMAIN game_data |->
        IF c \in {"tile_metadata", "modules"} THEN game_data[c]
        ELSE [id \in DOMAIN game_data[c] |-> [game_data[c][id] EXCEPT !.metadata.icon = old]]]

\* transform_icons on a model whose collections hold some of the IDs
InitIcons ==
    /\ rwlock = LockFree
    /\ thr = [t \in Threads |-> IdleThread]
    /\ issued = <<>>
    /\ calls = 0
    /\ output = <<>>
    /\ ex = ExIdle
    /\ given = NoRecords
    /\ lines = <<>>
    /\ td = TdIdle
    /\ \E interned \in Orders(IconTexts) :
          interner = InternAll(EmptyInterner, interned)
    /\ \E data \in [{Categories[c] : c \in 1..Len(Categories)} -> SUBSET (1..MaxIconIds)],
          held \in FileImages, old \in {None, Some(IconNew(MaxImages))} :
          rd = [IcCall(data, IconFiles(held)) EXCEPT
                   !.game_data = with_old_icons(IcCall(data, IconFiles(held)).game_data, old)]

SpecIcons == InitIcons /\ [][NextIcons]_vars

\* the text of the i-th of many IDs: "a0", "a1", ...
PackText(i) == <<Ch_a + ((i - 1) \div 10), Ch_0 + ((i - 1) % 10)>>

\* transform_icons after it has resolved the icons of n items, no two alike
Resolved(n) ==
    [IcCall([c \in {Categories[k] : k \in 1..Len(Categories)} |->
                IF c = "items" THEN 1..n ELSE {}],
            [dir \in {Dirs[d] : d \in 1..Len(Dirs)} |->
                [text \in {PackText(i) : i \in 1..n} |->
                    CHOOSE i \in 1..n : PackText(i) = text]])
     EXCEPT !.pc = "pack",
            !.cat = Len(Categories) + 1,
            !.images = [b \in 1..n |-> b - 1],
            !.icons["items"] = [id \in 1..n |-> id - 1]]

\* the packing of 0, 1, ... images
InitPack ==
    /\ rwlock = LockFree
    /\ thr = [t \in Threads |-> IdleThread]
    /\ issued = <<>>
    /\ calls = 0
    /\ output = <<>>
    /\ ex = ExIdle
    /\ given = NoRecords
    /\ lines = <<>>
    /\ td = TdIdle
    /\ \E n \in 0..MaxImages :
          /\ interner = [map    |-> [text \in {PackText(i) : i \in 1..n} |->
                                        CHOOSE i \in 1..n : PackText(i) = text],
                         values |-> [i \in 1..n |-> PackText(i)]]
          /\ rd = Resolved(n)

SpecPack == InitPack /\ [][NextPack]_vars

(***************************************************************************)
(* transform_data and then transform_icons on its model, as main_io runs   *)
(* them for the stage "all"                                                *)
(***************************************************************************)
\* what the n files of each directory hold: all one image, every file its
\* own, or no readable file for the first name of the first directory
StageImages(n) ==
    {[f \in 1..(Len(Dirs) * n) |-> 1],
     [f \in 1..(Len(Dirs) * n) |-> f],
     [f \in 1..(Len(Dirs) * n) |-> IF f = 1 THEN Unreadable ELSE 1]}

\* the file of a name is numbered by its directory and the symbol of the name
StageFiles(tab, held) ==
    [dir \in {Dirs[d] : d \in 1..Len(Dirs)} |->
        [text \in {tab.values[i] : i \in 1..Len(tab.values)} |->
            held[((CHOOSE d \in 1..Len(Dirs) : Dirs[d] = dir) - 1) * Len(tab.values)
                     + tab.map[text]]]]

\* the IDs of the five collections of a model
IdsOf(game_data) == [c \in {Categories[k] : k \in 1..Len(Categories)} |-> DOMAIN game_data[c]]

\* transform_icons(&paths, &game_data, icon_directory, true) on the model
\* transform_data returned
CallIcons ==
    /\ td.pc = "done"
    /\ rd.pc = "idle"
    /\ \E held \in StageImages(Len(interner.values)) :
          rd' = [IcCall(IdsOf(td.game_data.v), StageFiles(interner, held))
                    EXCEPT !.game_data = td.game_data.v]
    /\ UNCHANGED <<interner, rwlock, thr, issued, calls, extractVars, dataVars>>

NextStages == NextData \/ CallIcons \/ NextIcons

\* the two stages on the token vectors of well-formed data sets
InitStages ==
    /\ interner = EmptyInterner
    /\ rwlock = LockFree
    /\ thr = [t \in Threads |-> IdleThread]
    /\ issued = <<>>
    /\ calls = 0
    /\ output = <<>>
    /\ ex = ExIdle
    /\ \E l \in [1..5 -> 0..MaxPerKind], full \in BOOLEAN :
         \E shapes \in [1..l[4] -> ItemShapes(l[3])] :
                /\ given = ShapedRecords(l, full, shapes)
                /\ lines = TokensOf(ShapedRecords(l, full, shapes))
    /\ td = TdStart
    /\ rd = RdIdle

SpecStages == InitStages /\ [][NextStages]_vars

(***************************************************************************)
(* GameData::modify_metadata called on its own, with a callback that may   *)
(* give Err for some entities.                                             *)
(***************************************************************************)
\* a callback that gives Err for the entities in bad and a new icon otherwise
ModifyCallback(game_data, bad) ==
    [c \in DOMAIN bad |->
        [id \in DOMAIN game_data[c] |->
            IF id \in bad[c] THEN [ok |-> FALSE, err |-> <<c, id>>]
            ELSE [ok |-> TRUE,
                  v  |-> [game_data[c][id].metadata EXCEPT !.icon = Some(IconNew(0))]]]]

\* game_data.modify_metadata(f): the GameData is the one the call leaves
RdModify ==
    /\ rd.pc = "call"
    /\ rd.fn = "modify_metadata"
    /\ \E iters \in [DOMAIN rd.f -> UNION {Orders(S) : S \in SUBSET (1..MaxIconIds)}] :
          /\ \A c \in DOMAIN rd.f : iters[c] \in Orders(DOMAIN rd.this[c])
          /\ rd' = [rd EXCEPT
                       !.pc = "ret",
                       !.this = modify_metadata(rd.this, rd.f, iters).this,
                       !.res = IF modify_metadata(rd.this, rd.f, iters).ok
                               THEN [kind |-> "ok"]
                               ELSE [kind |-> "err",
                                     err |-> modify_metadata(rd.this, rd.f, iters).err]]
    /\ UNCHANGED <<interner, rwlock, thr, issued, calls, extractVars, dataVars>>

\* modify_metadata on a GameData with up to MaxIconIds entities in a
\* collection and a callback that fails for any of them
InitModify ==
    /\ interner = EmptyInterner
    /\ rwlock = LockFree
    /\ thr = [t \in Threads |-> IdleThread]
    /\ issued = <<>>
    /\ calls = 0
    /\ output = <<>>
    /\ ex = ExIdle
    /\ given = NoRecords
    /\ lines = <<>>
    /\ td = TdIdle
    /\ \E data \in [Collections -> SUBSET (1..MaxIconIds)] :
          \E bad \in [Collections -> SUBSET (1..MaxIconIds)] :
             /\ \A c \in Collections : bad[c] \subseteq data[c]
             /\ Cardinality({c \in Collections : data[c] # {}}) <= 3
             /\ rd = [pc |-> "call", fn |-> "modify_metadata",
                      this |-> GameDataOf(data),
                      f |-> ModifyCallback(GameDataOf(data), bad),
                      res |-> None]

SpecModify == InitModify /\ [][RdModify]_vars

(***************************************************************************)
(* factorio_io::write_file_safely, called by several writers with the same *)
(* parent, file name and extension.  A path of the directory is told by    *)
(* its appendix: None is name.ext, Some(x) is name_x.ext.                  *)
(***************************************************************************)
NWriters == 2       \* concurrent callers of write_file_safely
MaxExisting == 2    \* candidate files that exist before the calls

Writers == 1..NWriters

\* the appendices a writer can get to when at most MaxExisting files exist
MaxAppendix == MaxExisting + NWriters - 2

Paths == {None} \cup {Some(x) : x \in 0..MaxAppendix}

\* the appendix of the iteration after this one
next_appendix(current_appendix) ==
    IF ~current_appendix.some THEN 0 ELSE current_appendix.v + 1

\* a file of the directory: who created it (0: it was there before) and
\* what it holds
File(by, contents) == Some([by |-> by, contents |-> contents])

\* the contents the writer passes
ContentsOf(c) == <<c>>

WriterStart == [pc |-> "loop", current_appendix |-> None, root_path |-> None, res |-> None]

\* an open with create(true): an existing file is opened and truncated
open_create(dir, path, c) ==
    [ok |-> TRUE, dir |-> [dir EXCEPT ![path] = File(c, <<>>)]]

\* OpenOptions::new().write(true).create_new(true).open(path): the file is
\* created unless the path exists, in one step of the file system
open_create_new(dir, path, c) ==
    IF dir[path].some THEN [ok |-> FALSE, err |-> "AlreadyExists"]
    ELSE [ok |-> TRUE, dir |-> [dir EXCEPT ![path] = File(c, <<>>)]]

\* one iteration of the loop up to the open: the path of the current
\* appendix is tried; AlreadyExists goes on with the next appendix
WfOpen(c) ==
    /\ rd.w[c].pc = "loop"
    /\ rd.w[c].current_appendix \in Paths
    /\ \/ rd' = IF open_create_new(rd.dir, rd.w[c].current_appendix, c).ok
                THEN [rd EXCEPT
                         !.dir = open_create_new(rd.dir, rd.w[c].current_appendix, c).dir,
                         !.w[c].pc = "write",
                         !.w[c].root_path = Some(rd.w[c].current_appendix),
                         !.w[c].current_appendix = Some(next_appendix(@))]
                ELSE [rd EXCEPT
                         !.w[c].current_appendix = Some(next_appendix(@))]
       \/ rd' = [rd EXCEPT
                    !.w[c].pc = "ret",
                    !.w[c].root_path = Some(rd.w[c].current_appendix),
                    !.w[c].current_appendix = Some(next_appendix(@)),
                    !.w[c].res = [kind |-> "err", err |-> "io::Error"]]
    /\ UNCHANGED <<interner, rwlock, thr, issued, calls, extractVars, dataVars>>

\* file.write_all(contents)? and return Ok(root_path)
WfWrite(c) ==
    /\ rd.w[c].pc = "write"
    /\ \/ rd' = [rd EXCEPT
                    !.dir[rd.w[c].root_path.v] = File(c, ContentsOf(c)),
                    !.w[c].pc = "ret",
                    !.w[c].res = [kind |-> "ok", v |-> rd.w[c].root_path.v]]
       \/ rd' = [rd EXCEPT
                    !.w[c].pc = "ret",
                    !.w[c].res = [kind |-> "err", err |-> "io::Error"]]
    /\ UNCHANGED <<interner, rwlock, thr, issued, calls, extractVars, dataVars>>

WfStep(c) == WfOpen(c) \/ WfWrite(c)

NextWrite == \E c \in Writers : WfStep(c)

\* the writers before their first iteration, in a directory in which up to
\* MaxExisting of the candidate paths exist
InitWrite ==
    /\ interner = EmptyInterner
    /\ rwlock = LockFree
    /\ thr = [t \in Threads |-> IdleThread]
    /\ issued = <<>>
    /\ calls = 0
    /\ output = <<>>
    /\ ex = ExIdle
    /\ given = NoRecords
    /\ lines = <<>>
    /\ td = TdIdle
    /\ \E existing \in SUBSET Paths :
          /\ Cardinality(existing) <= MaxExisting
          /\ rd = [fn |-> "write_file_safely",
                   dir |-> [p \in Paths |-> IF p \in existing THEN File(0, <<0>>) ELSE None],
                   w |-> [c \in Writers |-> WriterStart]]

SpecWrite == InitWrite /\ [][NextWrite]_vars

\* every writer that can take a step takes one in the end
SpecWriteFair == SpecWrite /\ \A c \in Writers : WF_vars(WfStep(c))

(***************************************************************************)
(* main_io: the stages of the selected run, each called with `?`.  What a  *)
(* stage does is not looked at here, only how its call ends.               *)
(***************************************************************************)
StageNames ==
    {"all", "data", "icons", "extract_data", "transform_data", "extract_icons",
     "transform_icons"}

Call(fn, arg) == [fn |-> fn, arg |-> arg]

\* the calls of the arm of `match app.value_of("stage")`, in their order
MainPlan(stage, prune_level, no_transform_log) ==
    CASE stage = "all" ->
            <<Call("extract_data", prune_level),
              Call("transform_data", ~no_transform_log),
              Call("extract_icons", "game_data"),
              Call("transform_icons", TRUE),
              Call("store_game_data", FALSE)>>
      [] stage = "data" ->
            <<Call("extract_data", prune_level),
              Call("transform_data", ~no_transform_log),
              Call("store_game_data", FALSE)>>
      [] stage = "icons" ->
            <<Call("load_game_data", "paths"),
              Call("extract_icons", "game_data"),
              Call("transform_icons", TRUE),
              Call("store_game_data", TRUE)>>
      [] stage = "extract_data" ->
            <<Call("extract_data", prune_level),
              Call("store_prototypes", "prototypes")>>
      [] stage = "transform_data" ->
            <<Call("load_prototypes", "paths"),
              Call("transform_data", ~no_transform_log),
              Call("store_game_data", FALSE)>>
      [] stage = "extract_icons" ->
            <<Call("load_game_data", "paths"),
              Call("extract_icons", "game_data")>>
      [] stage = "transform_icons" ->
            <<Call("load_game_data", "paths"),
              Call("transform_icons", FALSE),
              Call("store_game_data", TRUE)>>

\* how a call can end: Ok, Err, and a panic in the functions that can panic
CallEnds(fn) ==
    IF fn \in {"extract_data", "transform_data", "transform_icons"}
    THEN {"ok", "err", "panic"}
    ELSE {"ok", "err"}

\* a main_io that goes on whatever the call returned
proceeds_always(out) == TRUE

\* the `?` behind a call: main_io goes on after Ok
proceeds(out) == out = "ok"

\* where main_io is after a call has ended
after_call(out) ==
    IF proceeds(out) THEN "stage" ELSE IF out = "panic" THEN "panic" ELSE "ret"

\* factorio_io::get_factorio_paths(&directory)?
MainPaths ==
    /\ rd.pc = "paths"
    /\ \E found \in BOOLEAN :
          rd' = IF found THEN [rd EXCEPT !.pc = "stage"]
                ELSE [rd EXCEPT !.pc = "ret", !.res = [kind |-> "err", err |-> "io::Error"]]
    /\ UNCHANGED <<interner, rwlock, thr, issued, calls, extractVars, dataVars>>

\* the next call of the arm
MainStage ==
    /\ rd.pc = "stage"
    /\ Len(rd.ran) < Len(MainPlan(rd.stage, rd.prune_level, rd.no_transform_log))
    /\ \E out \in CallEnds(MainPlan(rd.stage, rd.prune_level,
                                    rd.no_transform_log)[Len(rd.ran) + 1].fn) :
          rd' = [rd EXCEPT
                    !.pc = after_call(out),
                    !.ran = Append(rd.ran,
                                   [call |-> MainPlan(rd.stage, rd.prune_level,
                                                      rd.no_transform_log)[Len(rd.ran) + 1],
                                    out |-> out]),
                    !.res = IF out = "ok" THEN rd.res
                            ELSE [kind |-> out, err |-> "io::Error"]]
    /\ UNCHANGED <<interner, rwlock, thr, issued, calls, extractVars, dataVars>>

\* Ok(()) at the end of main_io
MainOk ==
    /\ rd.pc = "stage"
    /\ Len(rd.ran) = Len(MainPlan(rd.stage, rd.prune_level, rd.no_transform_log))
    /\ rd' = [rd EXCEPT !.pc = "ret",
                        !.res = [kind |-> "ok"]]
    /\ UNCHANGED <<interner, rwlock, thr, issued, calls, extractVars, dataVars>>

NextMain == MainPaths \/ MainStage \/ MainOk

\* main_io with every --stage, --prune_level and --no_transform_log
InitMain ==
    /\ interner = EmptyInterner
    /\ rwlock = LockFree
    /\ thr = [t \in Threads |-> IdleThread]
    /\ issued = <<>>
    /\ calls = 0
    /\ output = <<>>
    /\ ex = ExIdle
    /\ given = NoRecords
    /\ lines = <<>>
    /\ td = TdIdle
    /\ \E stage \in StageNames, prune_level \in 0..2, no_transform_log \in BOOLEAN :
          rd = [pc |-> "paths", fn |-> "main_io", stage |-> stage,
                prune_level |-> prune_level, no_transform_log |-> no_transform_log,
                ran |-> <<>>, res |-> None]

SpecMain == InitMain /\ [][NextMain]_vars

(***************************************************************************)
(* combine_image: the RGBA image recovered from the render of an icon on   *)
(* a dark and on a light background.  A channel is a byte; the f64 values  *)
(* are kept as exact fractions [n, d], d = 0 standing for what a division  *)
(* by zero gives (NaN for n = 0, an infinity otherwise).  The f64 result   *)
(* differs from the exact one by far less than any distance between two    *)
(* of these fractions, so it rounds like the exact value except where the  *)
(* exact value is halfway between two bytes: there the f64 error decides,  *)
(* and both bytes are outcomes.                                            *)
(***************************************************************************)
MaxPixels == 1              \* pixels of an image

Sgn(x) == IF x < 0 THEN 0 - 1 ELSE IF x > 0 THEN 1 ELSE 0

\* x / a for x = n / 255 and a = sum / 765
div_alpha(n, sum) == IF sum = 0 THEN [n |-> Sgn(n), d |-> 0] ELSE [n |-> 3 * n, d |-> sum]

\* 255 * (dr + dg + db) with dr = d[0] - l[0] + 1, ...; a is a third of it
alpha_sum(d, l) == (d[1] - l[1] + 255) + (d[2] - l[2] + 255) + (d[3] - l[3] + 255)

\* a, the sum of the three channels divided by 3
alpha(d, l) == [n |-> alpha_sum(d, l), d |-> 3 * 255]

\* r1 = d / a
from_dark(dc, sum) == div_alpha(dc, sum)

\* r2 = (l - 1) / a + 1
from_light(lc, sum) ==
    IF sum = 0 THEN div_alpha(lc - 255, sum)
    ELSE [n |-> div_alpha(lc - 255, sum).n + sum, d |-> sum]

\* a colour taken from the dark image alone
average_first(x, y) == x

\* (r1 + r2) / 2; both have the denominator of a
average(x, y) ==
    IF x.d = 0 THEN [n |-> Sgn(x.n + y.n), d |-> 0]
    ELSE [n |-> x.n + y.n, d |-> 2 * x.d]

\* x.round() for x = n / d in 0..255: half away from zero, either way where
\* the exact value is a half
round_byte(n, d) ==
    IF 2 * (n % d) < d THEN {n \div d}
    ELSE IF 2 * (n % d) > d THEN {n \div d + 1}
    ELSE {n \div d, n \div d + 1}

\* f64::max(0, f64::min(255, x * 255)).round() as u8; min and max give the
\* other argument for NaN
to_byte(x) ==
    IF x.d = 0 THEN IF x.n < 0 THEN {0} ELSE {255}
    ELSE IF x.n <= 0 THEN {0}
    ELSE IF x.n >= x.d THEN {255}
    ELSE round_byte(255 * x.n, x.d)

\* the bytes of one colour channel
colour_byte(dc, lc, sum) == to_byte(average(from_dark(dc, sum), from_light(lc, sum)))

\* pixel.data of one pixel
combine_pixel(d, l) ==
    colour_byte(d[1], l[1], alpha_sum(d, l))
        \X colour_byte(d[2], l[2], alpha_sum(d, l))
        \X colour_byte(d[3], l[3], alpha_sum(d, l))
        \X to_byte(alpha(d, l))

\* combined.enumerate_pixels_mut().for_each(..): the images it can give
RECURSIVE combine_image(_, _)
combine_image(dark, light) ==
    IF dark = <<>> THEN {<<>>}
    ELSE {<<px>> \o rest : px \in combine_pixel(Head(dark), Head(light)),
                           rest \in combine_image(Tail(dark), Tail(light))}

\* combine_image(dark_img, light_img)
RdCombine ==
    /\ rd.pc = "call"
    /\ rd.fn = "combine_image"
    /\ \E image \in combine_image(rd.dark, rd.light) :
          rd' = [rd EXCEPT !.pc = "ret", !.res = [kind |-> "ok", v |-> image]]
    /\ UNCHANGED <<interner, rwlock, thr, issued, calls, extractVars, dataVars>>

\* the channel values of the files
ChannelBytes == {0, 1, 64, 191, 255}

\* combine_image on two images of the same size
InitCombine ==
    /\ interner = EmptyInterner
    /\ rwlock = LockFree
    /\ thr = [t \in Threads |-> IdleThread]
    /\ issued = <<>>
    /\ calls = 0
    /\ output = <<>>
    /\ ex = ExIdle
    /\ given = NoRecords
    /\ lines = <<>>
    /\ td = TdIdle
    /\ \E n \in 1..MaxPixels :
          \E dark \in [1..n -> ChannelBytes \X ChannelBytes \X ChannelBytes],
             light \in [1..n -> ChannelBytes \X ChannelBytes \X ChannelBytes] :
             rd = [pc |-> "call", fn |-> "combine_image", dark |-> dark, light |-> light,
                   res |-> None]

SpecCombine == InitCombine /\ [][RdCombine]_vars

(***************************************************************************)
(* Properties of the interner                                              *)
(***************************************************************************)
\* C1: whatever was interned, in whatever order and however often, two
\* results of Str::new are equal exactly when their texts are equal.
C1_EqualIffSameText ==
    \A i, j \in 1..Len(issued) :
        (issued[i].str = issued[j].str) <=> (issued[i].text = issued[j].text)

\* a text was interned, then another one, then the first one again
C1_Witness ==
    \E i, j, k \in 1..Len(issued) :
        /\ i < j /\ j < k
        /\ issued[i].text = issued[k].text
        /\ issued[i].text # issued[j].text

\* every Str handed out resolves to its text, also in the call that is returning
ResolvesToText ==
    /\ \A i \in 1..Len(issued) :
          /\ to_usize(issued[i].str) + 1 \in 1..Len(interner.values)
          /\ resolve_unchecked(interner, issued[i].str) = issued[i].text
    /\ \A t \in Threads :
          thr[t].pc = "str_unlock" =>
              \E i \in 1..Len(issued) :
                  issued[i].str = thr[t].arg /\ issued[i].text = thr[t].res

\* a step only appends to the table
AppendOnly ==
    /\ Len(interner'.values) >= Len(interner.values)
    /\ \A i \in 1..Len(interner.values) : interner'.values[i] = interner.values[i]
    /\ \A s \in DOMAIN interner.map :
          s \in DOMAIN interner'.map /\ interner'.map[s] = interner.map[s]

\* C2: Str::str of a Str returned by Str::new(t) is t, now and after any later
\* Str::new: no entry of the table is removed, reassigned or changed.
C2_ResolveStable == []ResolvesToText /\ [][AppendOnly]_vars

\* a Str is resolved after another text was interned behind it
C2_Witness ==
    \E t \in Threads :
        /\ thr[t].pc = "str_unlock"
        /\ Len(issued) >= 2
        /\ thr[t].arg = issued[1].str
        /\ issued[2].text # issued[1].text
        /\ Len(interner.values) >= 2

InNew(t) == thr[t].pc \in {"new_lookup", "new_insert", "new_unlock"}
InStr(t) == thr[t].pc \in {"str_resolve", "str_unlock"}

\* C3: under every interleaving a writer excludes every other writer and every
\* reader, threads interning the same text get the same Str, threads interning
\* different texts get different ones, and Str::str yields the original text.
C3_ConcurrentSafe ==
    /\ \A t, u \in Threads :
          (t # u /\ InNew(t)) => (~InNew(u) /\ ~InStr(u))
    /\ \A i, j \in 1..Len(issued) :
          issued[i].by # issued[j].by =>
              ((issued[i].str = issued[j].str) <=> (issued[i].text = issued[j].text))
    /\ \A t \in Threads :
          thr[t].pc = "str_unlock" =>
              \A i \in 1..Len(issued) :
                  issued[i].str = thr[t].arg => issued[i].text = thr[t].res

\* two threads have interned one text, and now one of them holds the write
\* lock while the other waits to intern the same text
C3_Witness ==
    /\ \E i, j \in 1..Len(issued) :
          issued[i].by # issued[j].by /\ issued[i].text = issued[j].text
    /\ \E t, u \in Threads :
          /\ t # u /\ InNew(t)
          /\ thr[u].pc = "new_wait" /\ thr[u].arg = thr[t].arg

(***************************************************************************)
(* Properties of extract_data                                              *)
(***************************************************************************)
HasChar(c) == \E i \in 1..Len(output) : output[i] = c

\* position of the first start marker and of the last end marker
FirstStart ==
    CHOOSE i \in 1..Len(output) :
        output[i] = SOH /\ \A j \in 1..(i - 1) : output[j] # SOH
LastEnd ==
    CHOOSE i \in 1..Len(output) :
        output[i] = EOT /\ \A j \in (i + 1)..Len(output) : output[j] # EOT

\* the text strictly between the two
Between == replace_crlf(SubSeq(output, FirstStart + 1, LastEnd - 1))

\* an STX opens a frame when every STX before it has been closed by an ETX
IsOpener(s, i) ==
    /\ s[i] = STX
    /\ \A k \in 1..(i - 1) : s[k] = STX => \E m \in (k + 1)..(i - 1) : s[m] = ETX

\* the frames that are closed, by the position of their opener
ClosedFrames(s) ==
    {i \in 1..Len(s) : IsOpener(s, i) /\ \E m \in (i + 1)..Len(s) : s[m] = ETX}

CloseOf(s, i) ==
    CHOOSE m \in (i + 1)..Len(s) :
        s[m] = ETX /\ \A k \in (i + 1)..(m - 1) : s[k] # ETX

NthFrame(s, n) ==
    CHOOSE i \in ClosedFrames(s) : Cardinality({j \in ClosedFrames(s) : j < i}) = n - 1

\* the texts of the closed frames in order of appearance
FrameTexts(s) ==
    [n \in 1..Cardinality(ClosedFrames(s)) |->
        SubSeq(s, NthFrame(s, n) + 1, CloseOf(s, NthFrame(s, n)) - 1)]

IsPrefix(a, b) == Len(a) <= Len(b) /\ \A i \in 1..Len(a) : a[i] = b[i]

C24_NeverAbnormal == ex.pc \in {"idle", "start", "batching", "done", "err"}

(***************************************************************************)
(* Properties of transform_data                                            *)
(***************************************************************************)
\* the model transform_data returned
Model == td.game_data.v

\* the symbol the interner gave to a text of the input
Sym(text) == interner.map[text]

Min(a, b) == IF a < b THEN a ELSE b

\* the item records the item block has decoded when it is through
ReadItems == 1..Min(given.item_count, Len(given.items))

\* C4: a header that declares n items over a stream that holds n + 1 or
\* n - 1 item records makes transform_data fail: it returns a model only
\* when the declared number of items is the number of item records.
C4_ItemCountChecked ==
    td.pc = "done" => given.item_count = Len(given.items)

\* C5: when transform_data succeeds, each of the five collections of the
\* model has as many members as the header declares for its category, so
\* two records with the same ID in a category make it fail.
C5_CardinalitiesAreCounts ==
    td.pc = "done" =>
        /\ Cardinality(DOMAIN Model.machines) = td.counts.machine
        /\ Cardinality(DOMAIN Model.beacons) = td.counts.beacon
        /\ Cardinality(DOMAIN Model.recipes) = td.counts.recipe
        /\ Cardinality(DOMAIN Model.items) = td.counts.item
        /\ Cardinality(DOMAIN Model.fluids) = td.counts.fluid

\* the flag of a channel in the allowed_effects text of a machine or beacon record
FlagSet(rec, ch) == rec.ae[ch] = Ch_1

\* the modifier of a module of the model on a channel
Modifier(m, ch) ==
    IF ch = 1 THEN m.modifier_energy
    ELSE IF ch = 2 THEN m.modifier_speed
    ELSE IF ch = 3 THEN m.modifier_productivity
    ELSE m.modifier_pollution

\* every channel is allowed by the record or left alone by the module
Applicable(rec, m) == \A ch \in 1..4 : FlagSet(rec, ch) \/ Modifier(m, ch) = RatioZero

\* C6: in a model transform_data produced, a module is in supported_modules
\* of a machine or a beacon exactly when, on each of the four channels, the
\* flag of the machine or beacon is set or the modifier of the module is zero.
C6_SupportedIffApplicable ==
    td.pc = "done" =>
        /\ \A i \in 1..Len(given.machines) : \A m \in DOMAIN Model.modules :
               m \in Model.machines[Sym(given.machines[i].id)].supported_modules
                   <=> Applicable(given.machines[i], Model.modules[m])
        /\ \A i \in 1..Len(given.beacons) : \A m \in DOMAIN Model.modules :
               m \in Model.beacons[Sym(given.beacons[i].id)].supported_modules
                   <=> Applicable(given.beacons[i], Model.modules[m])

\* a module with a productivity modifier is left out of a machine whose
\* productivity flag is clear and taken by a beacon that allows everything
C6_Witness ==
    /\ td.pc = "done"
    /\ \E m \in DOMAIN Model.modules :
          /\ Model.modules[m].modifier_productivity # RatioZero
          /\ \E e \in DOMAIN Model.machines : m \notin Model.machines[e].supported_modules
          /\ \E e \in DOMAIN Model.beacons : m \in Model.beacons[e].supported_modules
    /\ ~FlagSet(given.machines[1], 3)

\* C7: after a successful run, a module item with the limitations flag "0"
\* is in supported_modules of every recipe of the model, and the recipes of
\* the model are the recipes of the recipe block.
C7_NoLimitationsEveryRecipe ==
    td.pc = "done" =>
        /\ DOMAIN Model.recipes = {Sym(given.recipes[j].id) : j \in 1..Len(given.recipes)}
        /\ \A i \in ReadItems :
               given.items[i].is_module /\ ~given.items[i].has_limitations =>
                   \A r \in DOMAIN Model.recipes :
                       Sym(given.items[i].id) \in Model.recipes[r].supported_modules

\* two recipes and a module without limitations, assembled
C7_Witness ==
    /\ td.pc = "done"
    /\ Cardinality(DOMAIN Model.recipes) = 2
    /\ \E i \in ReadItems :
          /\ given.items[i].is_module /\ ~given.items[i].has_limitations
          /\ \A r \in DOMAIN Model.recipes :
                 Sym(given.items[i].id) \in Model.recipes[r].supported_modules

\* the recipes a module item names in its limitation list
Named(item) == {item.limitations[k] : k \in 1..Len(item.limitations)}

\* the IDs of the recipe records
RecipeTexts == {given.recipes[j].id : j \in 1..Len(given.recipes)}

\* an item the item block decodes whose limitation list names a recipe that is not there
MissingRecipe ==
    \E i \in ReadItems :
        /\ given.items[i].is_module /\ given.items[i].has_limitations
        /\ ~(Named(given.items[i]) \subseteq RecipeTexts)

\* C8: after a successful run, a module item with the limitations flag "1"
\* is in supported_modules of the recipes its list names and of no other;
\* a list that names a recipe that is not in the recipe collection makes
\* transform_data fail, and the failure that names the limitation is given
\* only for such a list; without success there is no model.
C8_LimitationsExactly ==
    /\ td.pc = "done" =>
           \A i \in ReadItems :
               given.items[i].is_module /\ given.items[i].has_limitations =>
                   \A r \in DOMAIN Model.recipes :
                       Sym(given.items[i].id) \in Model.recipes[r].supported_modules
                           <=> \E x \in Named(given.items[i]) : x \in DOMAIN interner.map /\ Sym(x) = r
    /\ MissingRecipe => td.pc # "done"
    /\ td.pc = "err" /\ td.err = "module limitation contains non-existent recipe" => MissingRecipe
    /\ td.pc # "done" => td.game_data = None

\* two recipes and a module limited to one of them, assembled
C8_Witness ==
    /\ td.pc = "done"
    /\ Cardinality(DOMAIN Model.recipes) = 2
    /\ \E i \in ReadItems :
          /\ given.items[i].is_module /\ given.items[i].has_limitations
          /\ \E r \in DOMAIN Model.recipes :
                 Sym(given.items[i].id) \in Model.recipes[r].supported_modules
          /\ \E r \in DOMAIN Model.recipes :
                 Sym(given.items[i].id) \notin Model.recipes[r].supported_modules

\* the entities of a collection that take modules
Takers(model) ==
    {model.recipes[r] : r \in DOMAIN model.recipes}
        \cup {model.machines[m] : m \in DOMAIN model.machines}
        \cup {model.beacons[b] : b \in DOMAIN model.beacons}

\* C28: in a model transform_data produced, the ID of every module is the
\* ID of an item, and every ID in supported_modules of a recipe, a machine
\* or a beacon is the ID of a module.
C28_ModulesAreItems ==
    td.pc = "done" =>
        /\ DOMAIN Model.modules \subseteq DOMAIN Model.items
        /\ \A m \in DOMAIN Model.modules : Model.modules[m].id = Model.items[m].id
        /\ \A e \in Takers(Model) : e.supported_modules \subseteq DOMAIN Model.modules

\* a model with a module and a recipe and a machine that support it
C28_Witness ==
    /\ td.pc = "done"
    /\ DOMAIN Model.modules # {}
    /\ \E r \in DOMAIN Model.recipes : Model.recipes[r].supported_modules # {}
    /\ \E m \in DOMAIN Model.machines : Model.machines[m].supported_modules # {}

\* the recipe but for its supported modules
WithoutModules(recipe) == [recipe EXCEPT !.supported_modules = {}]

\* the recipes are kept by the step, their supported modules may grow
RecipesKept ==
    /\ DOMAIN td'.recipes = DOMAIN td.recipes
    /\ \A r \in DOMAIN td.recipes :
          /\ WithoutModules(td'.recipes[r]) = WithoutModules(td.recipes[r])
          /\ td.recipes[r].supported_modules \subseteq td'.recipes[r].supported_modules

\* C29: while the items are read, every step keeps the IDs of the recipe
\* collection and every field of a recipe but supported_modules, which
\* only grows; this also holds for the step that fails because a
\* limitation names a recipe that is not there.
C29_RecipesPreserved == [][td.pc = "items" => RecipesKept]_vars

\* a module was attached to a recipe and then a limitation named a recipe
\* that is not there
C29_Witness ==
    /\ td.pc = "err"
    /\ td.err = "module limitation contains non-existent recipe"
    /\ \E r \in DOMAIN td.recipes :
          /\ td.recipes[r].supported_modules # {}
          /\ td.recipes[r].id = r

(***************************************************************************)
(* Properties of the readers                                               *)
(***************************************************************************)
\* the token sequence ends before the last field of the data set
Truncated == Len(lines) < Len(TokensOf(given))

BlockOpen ==
    \/ td.pc = "header"
    \/ td.pc = "machines" /\ td.n <= td.counts.machine
    \/ td.pc = "beacons" /\ td.n <= td.counts.beacon
    \/ td.pc = "recipes" /\ td.n <= td.counts.recipe
    \/ td.pc = "items" /\ td.n <= td.counts.item
    \/ td.pc = "fluids" /\ td.n <= td.counts.fluid

\* the cursor stays within the tokens; a sequence that ends too early gives
\* no model: its run has a next step until it fails, and it fails with the
\* cursor behind the last token and the error of the reader that found no
\* token
CursorAndEnd ==
    /\ td.iter <= Len(lines) + 1
    /\ Truncated =>
          /\ td.pc # "done" /\ td.game_data = None
          /\ td.pc # "err" => BlockOpen
          /\ td.pc = "err" =>
                /\ td.iter = Len(lines) + 1
                /\ td.err = IF lines = <<>> THEN "unexpected end"
                            ELSE "unexpected end of data"
    /\ ~Truncated /\ td.pc = "done" => td.iter = Len(lines) + 1

\* a step never moves the cursor back and leaves the tokens as they are
CursorForward == td'.iter >= td.iter /\ lines' = lines

FallbackShape(key, value) ==
    /\ Len(value) = 15 + Len(key)
    /\ IsPrefix(UnknownKeyPrefix, value)
    /\ value[Len(value)] = Ch_quote

\* C12: a line of a key and a value separated by one \x1f resolves, when
\* the value has the shape of the fallback, to the key if the field is
\* required and to nothing if it is optional, and to the value in every
\* other case; a line of one part or of more than two is an error.
C12_LocalisedText ==
    rd.pc = "ret" /\ rd.fn = "read_localised_str_internal" =>
        IF Len(rd.parts) # 2 THEN rd.res.kind = "err"
        ELSE /\ rd.res.kind = "ok"
             /\ rd.res.v =
                    IF FallbackShape(rd.parts[1], rd.parts[2])
                    THEN IF rd.required THEN Some(Sym(rd.parts[1])) ELSE None
                    ELSE Some(Sym(rd.parts[2]))

\* the token of a read_ratio call without its leading minus
Unsigned == IF rd.token # <<>> /\ rd.token[1] = Ch_minus THEN Tail(rd.token) ELSE rd.token

HasPeriod == \E i \in 1..Len(Unsigned) : Unsigned[i] = Ch_dot

\* where the first period is, behind the text if there is none
Period ==
    IF HasPeriod
    THEN CHOOSE i \in 1..Len(Unsigned) :
             Unsigned[i] = Ch_dot /\ \A j \in 1..(i - 1) : Unsigned[j] # Ch_dot
    ELSE Len(Unsigned) + 1

\* the integer part, and the text after the first period
IntegerPart == SubSeq(Unsigned, 1, Period - 1)
Fraction == SubSeq(Unsigned, Period + 1, Len(Unsigned))

RatioReturned == rd.pc = "ret" /\ rd.fn = "read_ratio"

\* C13: read_ratio gives an error for every token whose text after the
\* first period contains 'e' or 'E'.
C13_NoScientific ==
    RatioReturned /\ (\E i \in 1..Len(Fraction) : Fraction[i] \in {Ch_e, Ch_E})
        => rd.res.kind = "err"

\* [-]DIGITS[.FRACTION]: at least one digit, then nothing or a period and digits
RatioShape ==
    /\ IntegerPart # <<>> /\ AllDigits(IntegerPart)
    /\ HasPeriod => Fraction # <<>> /\ AllDigits(Fraction)

\* C14: read_ratio gives an error for the empty token, for a token without
\* digits behind its optional minus and for a token with another byte than
\* a digit in its integer part; it succeeds only on [-]DIGITS[.FRACTION].
C14_ShapeOnly ==
    RatioReturned =>
        /\ rd.token = <<>> \/ Unsigned = <<>> \/ ~AllDigits(IntegerPart) => rd.res.kind = "err"
        /\ rd.res.kind = "ok" => RatioShape

\* the token is digits, a period and digits, with a fractional part in (0,1)
FractionCase ==
    /\ HasPeriod
    /\ AllDigits(IntegerPart)
    /\ Fraction # <<>> /\ AllDigits(Fraction)
    /\ DigitsValue(Fraction, 0) > 0

\* the fractional part f is FracNum / FracDen
FracNum == DigitsValue(Fraction, 0)
FracDen == Pow10(Len(Fraction))

\* the fraction the call has added to the integer part
ChosenDen == rd.res.v.d
ChosenNum == Abs(rd.res.v.n) - DigitsValue(IntegerPart, 0) * ChosenDen

\* |f - n/d| is Dist(n, d) / (FracDen * d)
Dist(n, d) == Abs(FracNum * d - n * FracDen)

\* x1 / d1 < x2 / d2 for x1, x2 >= 0 and d1, d2 > 0
RECURSIVE Less(_, _, _, _)
Less(x1, d1, x2, d2) ==
    IF x1 \div d1 # x2 \div d2 THEN x1 \div d1 < x2 \div d2
    ELSE IF x2 % d2 = 0 THEN FALSE
    ELSE IF x1 % d1 = 0 THEN TRUE
    ELSE Less(d2, x2 % d2, d1, x1 % d1)

\* |f - n1/d1| < |f - n2/d2|
Nearer(n1, d1, n2, d2) == Less(Dist(n1, d1), d1, Dist(n2, d2), d2)

\* |f - n/d| <= 0.00000001
Close(n, d) == Dist(n, d) <= (FracDen * d) \div EpsDen

\* num/den is before n/d in the order of ascending den, then ascending num
Before(num, den, n, d) == den < d \/ (den = d /\ num < n)

\* C15: for a fractional part f in (0,1) the chosen num/den has
\* 1 <= den <= 1000 and 0 <= num < den; either it is the first candidate
\* within 0.00000001 of f, or no candidate n/d with 0 <= n < d <= 1000 is
\* closer to f and every other candidate as close comes later in the order
\* of ascending den, then ascending num; the value returned is the sign
\* times (integer part + num/den).
C15_ClosestFraction ==
    RatioReturned /\ FractionCase =>
        /\ rd.res.kind = "ok"
        /\ IF rd.token[1] = Ch_minus THEN rd.res.v.n <= 0 ELSE rd.res.v.n >= 0
        /\ 1 <= ChosenDen /\ ChosenDen <= DenEnd - 1
        /\ 0 <= ChosenNum /\ ChosenNum < ChosenDen
        /\ IF Close(ChosenNum, ChosenDen)
           THEN \A d \in 1..ChosenDen : \A n \in 0..(d - 1) :
                    Before(n, d, ChosenNum, ChosenDen) => ~Close(n, d)
           ELSE \A d \in 1..(DenEnd - 1) : \A n \in 0..(d - 1) :
                    \/ Nearer(ChosenNum, ChosenDen, n, d)
                    \/ ~Nearer(n, d, ChosenNum, ChosenDen) /\ ~Before(n, d, ChosenNum, ChosenDen)

\* a call has returned a fraction that is not within 0.00000001 of f, after
\* the whole search
C15_Witness ==
    /\ RatioReturned /\ FractionCase
    /\ rd.res.kind = "ok"
    /\ ChosenDen > 1
    /\ ~Close(ChosenNum, ChosenDen)

(***************************************************************************)
(* Properties of transform_icons                                           *)
(***************************************************************************)
CategoryNames == {Categories[c] : c \in 1..Len(Categories)}
CategoryNo(c) == CHOOSE k \in 1..Len(Categories) : Categories[k] = c

\* the entities of the model: a collection and an ID of it
Entities == {e \in CategoryNames \X DOMAIN interner.values : e[2] \in rd.data[e[1]]}

TextOf(e) == interner.values[e[2]]

\* the buffer recovered from the files of an entity
BufferOf(e) == rd.files[DirOf(e[1])][TextOf(e)]

\* s is before t in the lexicographic order of the bytes
TextBefore(s, t) ==
    \E k \in 0..Min(Len(s), Len(t)) :
        /\ SubSeq(s, 1, k) = SubSeq(t, 1, k)
        /\ \/ k = Len(s) /\ k < Len(t)
           \/ k < Len(s) /\ k < Len(t) /\ s[k + 1] < t[k + 1]

\* e is met before f: an earlier collection, or the same and an earlier text
MetBefore(e, f) ==
    \/ CategoryNo(e[1]) < CategoryNo(f[1])
    \/ e[1] = f[1] /\ TextBefore(TextOf(e), TextOf(f))

\* e is the first entity met with its buffer
FirstMet(e) == \A f \in Entities : MetBefore(f, e) => BufferOf(f) # BufferOf(e)

IconsReturned == rd.pc = "ret" /\ rd.fn = "transform_icons" /\ rd.res.kind = "ok"

\* the atlas index of an entity of the returned model
IconOf(e) == rd.res.v[e[1]][e[2]].metadata.icon.v

IndexOf(e) == IconIndex(IconOf(e))

\* C16: after a successful icon stage two IDs have the same atlas index
\* exactly if their buffers are identical, tile_count is the number of
\* distinct buffers, the indices are exactly 0..tile_count-1, and they are
\* numbered in the order in which the buffers are first met (items, fluids,
\* recipes, machines, beacons; the IDs of a collection by their text).
C16_IndexPerBuffer ==
    IconsReturned =>
        /\ \A e, f \in Entities : IndexOf(e) = IndexOf(f) <=> BufferOf(e) = BufferOf(f)
        /\ rd.res.v.tile_metadata.v.tile_count = Cardinality({BufferOf(e) : e \in Entities})
        /\ {IndexOf(e) : e \in Entities} = 0..(rd.res.v.tile_metadata.v.tile_count - 1)
        /\ \A e, f \in Entities :
              FirstMet(e) /\ FirstMet(f) /\ MetBefore(e, f) => IndexOf(e) < IndexOf(f)

\* two entities of different collections share an index and another has its own
C16_Witness ==
    /\ IconsReturned
    /\ \E e, f, g \in Entities :
          /\ e[1] # f[1]
          /\ IndexOf(e) = IndexOf(f)
          /\ IndexOf(g) # IndexOf(e)
          /\ MetBefore(e, g) /\ MetBefore(g, f)

\* the images the packer was given, by index
ImageNo(i) == CHOOSE b \in DOMAIN rd.images : rd.images[b] = i

ImageCount == Cardinality(DOMAIN rd.images)

Columns == rd.tileset.v.image_size[1] \div TILE_WIDTH
Rows == rd.tileset.v.image_size[2] \div TILE_HEIGHT

\* C17: for n >= 1 images columns = ceil(sqrt(n)), rows = ceil(n / columns),
\* columns * rows >= n, image i is in the cell (i mod columns, i div columns),
\* the n cells are distinct and inside the grid, and the atlas is
\* (columns * 32, rows * 32); for n = 10 columns = 4, rows = 3 and image 7
\* is in the cell (3, 1).
C17_Packing ==
    rd.fn = "transform_icons" /\ rd.pc \notin {"resolve", "pack"} /\ ImageCount >= 1 /\ rd.cat > Len(Categories) =>
        /\ rd.tileset.some
        /\ rd.tileset.v.image_size = <<Columns * 32, Rows * 32>>
        /\ Columns * Columns >= ImageCount /\ (Columns - 1) * (Columns - 1) < ImageCount
        /\ Rows * Columns >= ImageCount /\ (Rows - 1) * Columns < ImageCount
        /\ \A i \in 0..(ImageCount - 1) :
              /\ <<(i % Columns) * 32, (i \div Columns) * 32>> \in DOMAIN rd.tileset.v.tiles
              /\ rd.tileset.v.tiles[<<(i % Columns) * 32, (i \div Columns) * 32>>] = ImageNo(i)
              /\ i % Columns < Columns /\ i \div Columns < Rows
        /\ Cardinality(DOMAIN rd.tileset.v.tiles) = ImageCount
        /\ ImageCount = 10 =>
              /\ Columns = 4 /\ Rows = 3
              /\ rd.tileset.v.tiles[<<3 * 32, 1 * 32>>] = ImageNo(7)

\* ten images have been packed
C17_Witness ==
    /\ rd.fn = "transform_icons"
    /\ rd.tileset.some
    /\ ImageCount = 10

\* C18: Icon::new(i).index() = i, the stored value is i + 1 >= 1, and the
\* position of Icon::new(i) under the TileMetadata of the icon stage is the
\* pixel origin ((i mod columns) * tile_width, (i div columns) * tile_height),
\* columns = image_width / tile_width, where the packer wrote image i.
C18_IconPosition ==
    IconsReturned =>
        \A e \in Entities :
            /\ IconOf(e).nz = rd.icons[e[1]][e[2]] + 1
            /\ IconOf(e).nz >= 1
            /\ IndexOf(e) = rd.icons[e[1]][e[2]]
            /\ IconPosition(IconOf(e), rd.res.v.tile_metadata.v)
                   = <<(rd.icons[e[1]][e[2]] % Columns) * rd.res.v.tile_metadata.v.tile_size[1],
                       (rd.icons[e[1]][e[2]] \div Columns) * rd.res.v.tile_metadata.v.tile_size[2]>>
            /\ Columns = rd.res.v.tile_metadata.v.image_size[1]
                             \div rd.res.v.tile_metadata.v.tile_size[1]
            /\ IconPosition(IconOf(e), rd.res.v.tile_metadata.v)
                   \in DOMAIN rd.written.v.tiles
            /\ rd.written.v.tiles[IconPosition(IconOf(e),
                                               rd.res.v.tile_metadata.v)]
                   = ImageNo(rd.icons[e[1]][e[2]])

\* an entity whose icon is in the second row of the atlas or below
C18_Witness ==
    /\ IconsReturned
    /\ \E e \in Entities :
          /\ IndexOf(e) >= Columns
          /\ IndexOf(e) % Columns > 0

\* the tile metadata of the returned model and the pixel origin of an icon
Tiles == rd.res.v.tile_metadata.v

OriginOf(e) == IconPosition(IconOf(e), Tiles)

\* C30: in a model a successful icon stage returned, the index of every
\* icon is below tile_count and the tile at its position lies inside the
\* atlas: x + tile_width <= image_width and y + tile_height <= image_height.
C30_TileInsideAtlas ==
    IconsReturned =>
        \A e \in Entities :
            /\ IndexOf(e) < Tiles.tile_count
            /\ OriginOf(e)[1] + Tiles.tile_size[1] <= Tiles.image_size[1]
            /\ OriginOf(e)[2] + Tiles.tile_size[2] <= Tiles.image_size[2]

\* the icon with the last index is the last tile of the last row of an
\* atlas of two rows or more
C30_Witness ==
    /\ IconsReturned
    /\ Tiles.image_size[2] >= 2 * Tiles.tile_size[2]
    /\ \E e \in Entities :
          /\ IndexOf(e) = Tiles.tile_count - 1
          /\ OriginOf(e)[1] + Tiles.tile_size[1] = Tiles.image_size[1]
          /\ OriginOf(e)[2] + Tiles.tile_size[2] = Tiles.image_size[2]

\* the collection a resolve_image call is about to take
Turn == Categories[rd.cat]

\* the IDs of the collection whose buffer no earlier entity has
NewIn(c) ==
    {id \in rd.data[c] : BufferOf(<<c, id>>) \notin DOMAIN rd.images /\ FirstMet(<<c, id>>)}

\* C19: the IDs of a collection are processed in the lexicographic order of
\* their texts, so the indices, the images and with them tile_count and the
\* atlas are the same for every order in which the set of entities is
\* iterated.
C19_OrderIndependent ==
    [][rd.fn = "transform_icons" /\ rd.pc = "resolve" =>
          /\ \A iter \in Orders(rd.data[Turn]) :
                rd' = resolved(resolve_image(interner, rd.files[DirOf(Turn)], rd.images, iter))
          /\ rd'.pc # "ret" =>
                \A i, j \in NewIn(Turn) :
                    TextBefore(interner.values[i], interner.values[j])
                        => rd'.icons[Turn][i] < rd'.icons[Turn][j]]_vars

\* the items "ab" and "b", interned as "b" and then "ab", have been given
\* the indices 0 and 1
C19_Witness ==
    /\ rd.fn = "transform_icons"
    /\ rd.cat = 2
    /\ rd.pc = "resolve"
    /\ interner.values = <<<<Ch_b>>, <<Ch_a, Ch_b>>>>
    /\ rd.icons["items"] = [id \in {1, 2} |-> 2 - id]

\* C20: the icon stage on a model without any entity ends with an error
\* value for the caller, and no atlas is written.
C20_EmptyIsError ==
    /\ rd.fn = "transform_icons"
    /\ \A c \in CategoryNames : rd.data[c] = {}
    /\ rd.pc \in {"ret", "panic"}
    => rd.res.kind = "err" /\ ~rd.written.some

\* C22: a model that transform_data returns has no tile_metadata and no
\* icon on any entity; a model that a successful transform_icons returns
\* has tile_metadata and, on every entity of the five collections, an icon
\* whose index is the atlas index given to the image of the entity.
C22_IconsOnlyByIconStage ==
    /\ td.pc = "done" =>
          /\ ~td.game_data.v.tile_metadata.some
          /\ \A c \in Collections : \A id \in DOMAIN td.game_data.v[c] :
                ~td.game_data.v[c][id].metadata.icon.some
    /\ rd.pc = "ret" /\ rd.res.kind = "ok" =>
          /\ rd.res.v.tile_metadata.some
          /\ \A c \in Collections :
                /\ DOMAIN rd.res.v[c] = DOMAIN td.game_data.v[c]
                /\ \A id \in DOMAIN td.game_data.v[c] :
                      /\ rd.res.v[c][id].metadata.icon.some
                      /\ IconIndex(rd.res.v[c][id].metadata.icon.v) =
                             rd.images[rd.files[DirOf(c)][interner.values[id]]]

\* the icon stage has returned a model with entities in three collections
\* or more and two images or more
C22_Witness ==
    /\ rd.pc = "ret" /\ rd.res.kind = "ok"
    /\ Cardinality({c \in Collections : rd.res.v[c] # <<>>}) >= 3
    /\ rd.res.v.tile_metadata.v.tile_count >= 2

\* the model the icon stage was given and the model it returned
IconInput == td.game_data.v
IconOutput == rd.res.v

\* transform_icons has been called
InIcons == rd.pc # "idle" /\ rd.fn = "transform_icons"

\* the entity but for its icon
WithoutIcon(e) == [e EXCEPT !.metadata.icon = None]

\* C25: the model a successful transform_icons returns has in each of the
\* five collections the IDs of the input model, every entity equal to the
\* input entity but for metadata.icon, and the modules of the input; the
\* input model is the same value during and after the call.
C25_OnlyIconsChange ==
    /\ InIcons => rd.game_data = IconInput
    /\ (InIcons /\ rd.pc = "ret" /\ rd.res.kind = "ok") =>
          /\ IconOutput.modules = IconInput.modules
          /\ \A c \in Collections :
                /\ DOMAIN IconOutput[c] = DOMAIN IconInput[c]
                /\ \A id \in DOMAIN IconInput[c] :
                      WithoutIcon(IconOutput[c][id]) = WithoutIcon(IconInput[c][id])

\* a model with a recipe that has ingredients and supports a module has
\* been through the icon stage
C25_Witness ==
    /\ InIcons /\ rd.pc = "ret" /\ rd.res.kind = "ok"
    /\ IconInput.modules # <<>>
    /\ \E id \in DOMAIN IconOutput.recipes :
          /\ IconOutput.recipes[id].supported_modules # {}
          /\ IconOutput.recipes[id].metadata.icon.some

\* C26: when the callback gives Err for an entity, modify_metadata returns
\* that error and leaves the GameData as it was before the call.
C26_Atomic ==
    [][(rd.pc = "call" /\ rd'.res.kind = "err") =>
          /\ rd'.this = rd.this
          /\ \E c \in Collections : \E id \in DOMAIN rd.this[c] :
                ~rd.f[c][id].ok /\ rd'.res.err = rd.f[c][id].err]_vars

(***************************************************************************)
(* Properties of write_file_safely                                         *)
(***************************************************************************)
\* the k-th path of name.ext, name_0.ext, name_1.ext, ...
Candidate(k) == IF k = 1 THEN None ELSE Some(k - 2)

CandidateNo(p) == CHOOSE k \in 1..(MaxAppendix + 2) : Candidate(k) = p

Returned(c) == rd.w[c].pc = "ret" /\ rd.w[c].res.kind = "ok"

\* the writer has a file open or has written one
Wrote(c) == rd.w[c].pc = "write" \/ Returned(c)

\* a file that exists is changed by nobody but the writer that created it
ExistingKept ==
    \A p \in Paths :
        rd.dir[p].some =>
            \/ rd'.dir[p] = rd.dir[p]
            \/ /\ rd.dir[p].v.by \in Writers
               /\ rd.w[rd.dir[p].v.by].pc = "write"
               /\ rd'.dir[p] = File(rd.dir[p].v.by, ContentsOf(rd.dir[p].v.by))

\* the returned path holds the contents, and every earlier candidate exists
FirstFree(c) ==
    /\ rd.dir[rd.w[c].res.v] = File(c, ContentsOf(c))
    /\ \A k \in 1..(CandidateNo(rd.w[c].res.v) - 1) : rd.dir[Candidate(k)].some

\* the candidate was free when the writer opened it
OpenedFree(c) ==
    (rd.w[c].pc = "loop" /\ rd'.w[c].pc = "write") =>
        /\ ~rd.dir[rd'.w[c].root_path.v].some
        /\ \A k \in 1..(CandidateNo(rd'.w[c].root_path.v) - 1) : rd.dir[Candidate(k)].some

\* C27: write_file_safely changes no file that exists; it writes the
\* contents to the first path of name.ext, name_0.ext, name_1.ext, ... that
\* does not exist and returns that path; no two concurrent writers write to
\* or return the same path; and every writer's search comes to an end.
C27_SafeWrite ==
    /\ [][ExistingKept /\ \A c \in Writers : OpenedFree(c)]_vars
    /\ [](\A c \in Writers : Returned(c) => FirstFree(c))
    /\ [](\A c, d \in Writers :
             (c # d /\ Wrote(c) /\ Wrote(d)) => rd.w[c].root_path # rd.w[d].root_path)
    /\ <>(\A c \in Writers : rd.w[c].pc = "ret")

\* both writers found name.ext and name_0.ext taken and returned the two
\* paths after them
C27_Witness ==
    /\ \A c \in Writers : Returned(c)
    /\ rd.dir[None].v.by = 0
    /\ rd.dir[Some(0)].v.by = 0
    /\ {rd.w[c].res.v : c \in Writers} = {Some(1), Some(2)}

(***************************************************************************)
(* Properties of combine_image                                             *)
(***************************************************************************)
\* 765 times the alpha of the p-th pixel of the call
AlphaOf(p) ==
    (rd.dark[p][1] - rd.light[p][1] + 255) + (rd.dark[p][2] - rd.light[p][2] + 255)
        + (rd.dark[p][3] - rd.light[p][3] + 255)

\* channel c of pixel p is n / (2 * AlphaOf(p)) of 255, for this n:
\* the average of d / alpha and (l - 1) / alpha + 1
ColourOf(p, c) == 3 * rd.dark[p][c] + 3 * (rd.light[p][c] - 255) + AlphaOf(p)

\* the byte b is n / d rounded and clamped into 0..255
RoundedClamped(b, n, d) ==
    /\ b \in 0..255
    /\ IF n <= 0 THEN b = 0
       ELSE IF n >= 255 * d THEN b = 255
       ELSE 2 * Abs(b * d - n) <= d

\* C21: alpha is the mean of d - l + 1 over the three channels, a colour
\* channel the average of d / alpha and (l - 1) / alpha + 1, and every
\* output channel is that number times 255, rounded and clamped into
\* 0..255; dark (64,64,64) and light (191,191,191) give alpha 128 and the
\* colour (128,128,128) up to one step of rounding.
C21_AlphaRecovery ==
    rd.fn = "combine_image" /\ rd.pc = "ret" =>
        \A p \in 1..Len(rd.dark) :
            /\ \A c \in 1..4 : rd.res.v[p][c] \in 0..255
            /\ RoundedClamped(rd.res.v[p][4], AlphaOf(p), 3)
            /\ AlphaOf(p) > 0 =>
                  \A c \in 1..3 :
                      RoundedClamped(rd.res.v[p][c], 255 * ColourOf(p, c), 2 * AlphaOf(p))
            /\ rd.dark[p] = <<64, 64, 64>> /\ rd.light[p] = <<191, 191, 191>> =>
                  /\ rd.res.v[p][4] = 128
                  /\ \A c \in 1..3 : rd.res.v[p][c] \in 127..129

\* the pixel of the example has been combined
C21_Witness ==
    /\ rd.fn = "combine_image" /\ rd.pc = "ret"
    /\ rd.dark[1] = <<64, 64, 64>> /\ rd.light[1] = <<191, 191, 191>>
    /\ rd.res.v[1][4] = 128


(***************************************************************************)
(* Properties of main_io.                                                  *)
(***************************************************************************)
\* the place of a stage function in the pipeline
StageRank(fn) ==
    CASE fn \in {"extract_data", "load_prototypes"} -> 1
      [] fn \in {"store_prototypes", "transform_data", "load_game_data"} -> 2
      [] fn = "extract_icons" -> 3
      [] fn = "transform_icons" -> 4
      [] fn = "store_game_data" -> 5

InMain == rd.fn = "main_io"

Failed(i) == rd.ran[i].out # "ok"

SomeFailed == \E i \in 1..Len(rd.ran) : Failed(i)

StagesInOrder ==
    \A i, j \in 1..Len(rd.ran) :
        i < j => /\ StageRank(rd.ran[i].call.fn) < StageRank(rd.ran[j].call.fn)
                 /\ rd.ran[i].call.fn # rd.ran[j].call.fn
                 /\ ~Failed(i)

NothingStoredAfterFailure ==
    \A i, j \in 1..Len(rd.ran) :
        (Failed(i) /\ i # j) => rd.ran[j].call.fn # "store_game_data"

\* C23: in every run of main_io the stage functions are called in pipeline
\* order, none twice, each only after all earlier ones returned Ok; once a
\* stage has failed no further call is made, so store_game_data is not called
\* in a run in which an earlier stage failed.
C23_StagesInSequence ==
    /\ [](InMain => (StagesInOrder /\ NothingStoredAfterFailure))
    /\ [][(InMain /\ SomeFailed) => rd'.ran = rd.ran]_vars

C23_Witness ==
    /\ InMain
    /\ rd.stage = "all"
    /\ rd.pc = "ret"
    /\ Len(rd.ran) = 4
    /\ rd.ran[4].call.fn = "transform_icons"
    /\ rd.ran[4].out = "err"
    /\ rd.res.kind = "err"

====
